---- MODULE Spec2Model ----
(***************************************************************************)
(* Whitespace analysis engine of patent-scout (app/whitespace_api.py and   *)
(* app/whitespace_signals.py).                                             *)
(*                                                                         *)
(* Real numbers are fixed-point integers in thousandths (Scale = 1000):    *)
(* a confidence of 0.33 is 330, a momentum of 0.2 is 200.  Comparisons     *)
(* against thresholds are made exactly, by cross-multiplication, wherever  *)
(* a division would round.  Dates are day numbers.                         *)
(***************************************************************************)
EXTENDS Integers, Naturals, Sequences, FiniteSets, TLC

\* one call of a signal detector: its arguments, its result, its payload
VARIABLES sig_call, sig_res, sig_payload
\* one assignee name, its canonical form, and the canonical form of that
VARIABLES canon_name, canon_once, canon_twice

\* one GraphRequest handed to _validate_graph_params, and the outcome
VARIABLES val_req, val_res

\* one call of _window_bounds: its arguments and what it computed
VARIABLES win_call, win_res

\* the rows neighbor_momentum aggregates (cluster id and stored pub_date of
\* every loaded node), and the momentum table it returns
VARIABLES mom_rows, mom_res

\* one call of build_group_signals: its arguments and what it returns
VARIABLES grp_in, grp_out

\* one POST /graph: the request, the patent rows of the database, the
\* response, the arrays the handler computed, the background task it
\* scheduled, and the tables user_whitespace_analysis and knn_edge
VARIABLES gr_req, gr_db, gr_resp, gr_run, gr_task, gr_rows, gr_edges

\* the background tasks scheduled so far, each with its progress through
\* _persist_sync; the clock NOW() reads; the tasks that committed, in order.
\* The tables they write are gr_rows and gr_edges
VARIABLES ps_tasks, ps_clock, ps_log

\* the libraries installed where the service is deployed, the outcome of
\* importing app.whitespace_api there, and what one POST /graph then met
VARIABLES imp_env, imp_module, imp_served

\* one call of cluster_labels with _HAVE_LEIDEN False: the distance and index
\* matrices given, and the labels returned
VARIABLES cl_call, cl_labels

\* one POST /graph followed line by line: the request and what its
\* environment holds, the statement the handler is at, the stages completed
\* so far, the background tasks added, and the status of the response
VARIABLES st_req, st_pc, st_done, st_tasks, st_resp

\* one call of _compute_bridge_inputs: the group, the labels and the
\* neighbour rows given, and the inputs of the bridge rule returned
VARIABLES br_call, br_res

sigVars == <<sig_call, sig_res, sig_payload>>
canonVars == <<canon_name, canon_once, canon_twice>>

valVars == <<val_req, val_res>>

winVars == <<win_call, win_res>>

momVars == <<mom_rows, mom_res>>

grpVars == <<grp_in, grp_out>>
grVars == <<gr_req, gr_db, gr_resp, gr_run, gr_task, gr_rows, gr_edges>>

psVars == <<ps_tasks, ps_clock, ps_log>>

impVars == <<imp_env, imp_module, imp_served>>

clVars == <<cl_call, cl_labels>>

stVars == <<st_req, st_pc, st_done, st_tasks, st_resp>>

brVars == <<br_call, br_res>>

vars == <<sigVars, canonVars, valVars, winVars, momVars, grpVars, grVars, psVars, impVars, clVars, stVars, brVars>>

\* what the actions of one component leave alone
NotSig == <<canonVars, valVars, winVars, momVars, grpVars, grVars, psVars, impVars, clVars, stVars, brVars>>
NotCanon == <<sigVars, valVars, winVars, momVars, grpVars, grVars, psVars, impVars, clVars, stVars, brVars>>
NotVal == <<sigVars, canonVars, winVars, momVars, grpVars, grVars, psVars, impVars, clVars, stVars, brVars>>
NotWin == <<sigVars, canonVars, valVars, momVars, grpVars, grVars, psVars, impVars, clVars, stVars, brVars>>
NotMom == <<sigVars, canonVars, valVars, winVars, grpVars, grVars, psVars, impVars, clVars, stVars, brVars>>
NotGrp == <<sigVars, canonVars, valVars, winVars, momVars, grVars, psVars, impVars, clVars, stVars, brVars>>
NotGr == <<sigVars, canonVars, valVars, winVars, momVars, grpVars, psVars, impVars, clVars, stVars, brVars>>
NotImp == <<sigVars, canonVars, valVars, winVars, momVars, grpVars, grVars, psVars, clVars, stVars, brVars>>
NotPs == <<sigVars, canonVars, valVars, winVars, momVars, grpVars,
           gr_req, gr_db, gr_resp, gr_run, gr_task, impVars, clVars, stVars, brVars>>
NotBr == <<sigVars, canonVars, valVars, winVars, momVars, grpVars, grVars, psVars, impVars, clVars, stVars>>
NotSt == <<sigVars, canonVars, valVars, winVars, momVars, grpVars, grVars, psVars, impVars, clVars, brVars>>
NotCl == <<sigVars, canonVars, valVars, winVars, momVars, grpVars, grVars, psVars, impVars, stVars, brVars>>

\* Body(v), with v evaluated once
Let(v, Body(_)) == CHOOSE r \in {Body(x) : x \in {v}} : TRUE

\* Python's None where a record is expected
None == [fn |-> "None"]

\* one unit of a real number, in thousandths
Scale == 10 ^ 3

(***************************************************************************)
(* Arithmetic helpers                                                      *)
(***************************************************************************)
Min2(a, b) == IF a <= b THEN a ELSE b
Max2(a, b) == IF a >= b THEN a ELSE b
Abs(a) == IF a < 0 THEN -a ELSE a

\* np.clip(v, lo, hi)
Clip(v, lo, hi) == Max2(lo, Min2(hi, v))

RECURSIVE SeqSum(_)
SeqSum(s) == IF s = <<>> THEN 0 ELSE Head(s) + SeqSum(Tail(s))

RECURSIVE SetSum(_)
SetSum(S) == IF S = {} THEN 0 ELSE LET x == CHOOSE y \in S : TRUE IN x + SetSum(S \ {x})

\* sum of f over a finite set
RECURSIVE SetSum2(_, _)
SetSum2(S, f) ==
    IF S = {} THEN 0 ELSE LET x == CHOOSE y \in S : TRUE IN f[x] + SetSum2(S \ {x}, f)

SetMax(S) == CHOOSE x \in S : \A y \in S : y <= x
SetMin(S) == CHOOSE x \in S : \A y \in S : x <= y

\* floor(sqrt(v)) by bisection on lo..hi
RECURSIVE ISqrtIn(_, _, _)
ISqrtIn(v, lo, hi) ==
    IF lo >= hi THEN lo
    ELSE LET mid == (lo + hi + 1) \div 2
         IN IF mid * mid <= v THEN ISqrtIn(v, mid, hi) ELSE ISqrtIn(v, lo, mid - 1)

ISqrt(v) == ISqrtIn(v, 0, 3100)

\* floor(num * 10^digits / den) by long division, for 0 <= num, 0 < den
RECURSIVE FracDiv(_, _, _)
FracDiv(num, den, digits) ==
    IF digits = 0 THEN num \div den
    ELSE (num \div den) * (10 ^ digits) + FracDiv((num % den) * 10, den, digits - 1)

\* the sequence s sorted ascending (insertion sort)
RECURSIVE InsertSorted(_, _)
InsertSorted(x, s) ==
    IF s = <<>> THEN <<x>>
    ELSE IF x <= Head(s) THEN <<x>> \o s
    ELSE <<Head(s)>> \o InsertSorted(x, Tail(s))

RECURSIVE SortAsc(_)
SortAsc(s) == IF s = <<>> THEN <<>> ELSE InsertSorted(Head(s), SortAsc(Tail(s)))

\* all sequences over S of length lo..hi
SeqsOf(S, lo, hi) == UNION {[1..n -> S] : n \in lo..hi}

(***************************************************************************)
(* whitespace_signals.py                                                   *)
(***************************************************************************)

\* SignalComputation(ok, confidence, message, debug); debug is not modelled
SignalComputation(ok, confidence, message) ==
    [ok |-> ok, confidence |-> confidence, message |-> message]

\* SignalComputation.status
StatusWeakBelowMedium(ok, confidence) ==
    IF ~ok \/ confidence <= 0 THEN "none"
    ELSE IF confidence >= 660 THEN "strong"
    ELSE IF confidence > 330 THEN "medium"
    ELSE "weak"

status(ok, confidence) ==
    IF ~ok \/ confidence <= 0 THEN "none"
    ELSE IF confidence >= 660 THEN "strong"
    ELSE IF confidence >= 330 THEN "medium"
    ELSE "weak"

\* t-statistics saturate every confidence formula from 3.0 on
TCap == 3 * Scale

\* slope_conf: least-squares slope of series against the standardised
\* index 0..n-1, and |slope / se|.  With a = n*Sxy, b = n*Sxx, c = n*Syy the
\* slope is a / (n*sqrt(b)) and t^2 = n*a^2 / (b*c - a^2); a perfect fit of a
\* sloped line divides by the 1e-9 guard and saturates.
slope_conf(series) ==
    LET n  == Len(series)
        sx == SeqSum([i \in 1..n |-> i - 1])
        sy == SeqSum(series)
        a  == n * SeqSum([i \in 1..n |-> (i - 1) * series[i]]) - sx * sy
        b  == n * SeqSum([i \in 1..n |-> (i - 1) * (i - 1)]) - sx * sx
        c  == n * SeqSum([i \in 1..n |-> series[i] * series[i]]) - sy * sy
        d  == b * c - a * a
        nn == n * a * a
        t  == IF a = 0 THEN 0
              ELSE IF d <= 0 \/ nn >= 9 * d THEN TCap
              ELSE Min2(TCap, ISqrt(FracDiv(nn, d, 6)))
    IN IF n < 2 THEN [a |-> 0, b |-> 1, n |-> 1, t |-> 0]
       ELSE [a |-> a, b |-> b, n |-> n, t |-> t]

\* slope > c/1000 and slope >= c/1000, decided exactly on squares
SlopeGT(sc, c) ==
    LET lhs == sc.a * sc.a
        rhs == c * c * sc.n * sc.n * sc.b
    IN IF c >= 0 THEN sc.a > 0 /\ lhs > rhs
       ELSE sc.a >= 0 \/ lhs < rhs

SlopeGE(sc, c) ==
    LET lhs == sc.a * sc.a
        rhs == c * c * sc.n * sc.n * sc.b
    IN IF c > 0 THEN sc.a > 0 /\ lhs >= rhs
       ELSE sc.a >= 0 \/ lhs <= rhs

SlopeLT(sc, c) == ~SlopeGE(sc, c)

\* pct_rank, as the pair (count of ref <= value, len(ref)); the rank is
\* count / max(1, len) and 0 for an empty ref
pct_rank(value, ref) ==
    [cnt |-> Cardinality({i \in 1..Len(ref) : ref[i] <= value}),
     len |-> Max2(1, Len(ref))]

\* percentile >= c/1000 and the percentile in thousandths
PctGE(p, c) == p.cnt * Scale >= c * p.len
PctValue(p) == (p.cnt * Scale) \div p.len

\* signal_focus_shift with the confidence of a single trend halved
FocusShiftHalved(dist_series, share_series, n_samples) ==
    IF Len(dist_series) < 3 \/ Len(share_series) < 3 \/ n_samples < 4
    THEN SignalComputation(FALSE, 0, "Not enough recent filings")
    ELSE
    LET s_dist  == slope_conf([i \in 1..Len(dist_series) |-> -dist_series[i]])
        s_share == slope_conf(share_series)
        dist_up    == SlopeGT(s_dist, 0)
        share_up   == SlopeGT(s_share, 0)
        soft_dist  == SlopeGT(s_dist, -20)
        soft_share == SlopeGT(s_share, -20)
        trend_votes == (IF dist_up THEN 1 ELSE 0) + (IF share_up THEN 1 ELSE 0)
        ok == trend_votes >= 1 /\ soft_dist /\ soft_share
        conf0 == (Min2(Scale, (s_dist.t + s_share.t) \div 2)
                  * Min2(Scale, (n_samples * Scale) \div 40)) \div Scale
        conf1 == IF trend_votes = 1 THEN (conf0 * 5) \div 10 ELSE conf0
        conf  == Clip(conf1, 0, Scale)
    IN IF ~ok THEN SignalComputation(FALSE, 0, "no sustained convergence")
       ELSE IF trend_votes = 1 THEN SignalComputation(TRUE, conf, "begun converging, uneven")
       ELSE SignalComputation(TRUE, conf, "converge, growing share")

\* signal_focus_shift
signal_focus_shift(dist_series, share_series, n_samples) ==
    IF Len(dist_series) < 3 \/ Len(share_series) < 3 \/ n_samples < 4
    THEN SignalComputation(FALSE, 0, "Not enough recent filings")
    ELSE
    LET s_dist  == slope_conf([i \in 1..Len(dist_series) |-> -dist_series[i]])
        s_share == slope_conf(share_series)
        dist_up    == SlopeGT(s_dist, 0)
        share_up   == SlopeGT(s_share, 0)
        soft_dist  == SlopeGT(s_dist, -20)
        soft_share == SlopeGT(s_share, -20)
        trend_votes == (IF dist_up THEN 1 ELSE 0) + (IF share_up THEN 1 ELSE 0)
        ok == trend_votes >= 1 /\ soft_dist /\ soft_share
        conf0 == (Min2(Scale, (s_dist.t + s_share.t) \div 2)
                  * Min2(Scale, (n_samples * Scale) \div 40)) \div Scale
        conf1 == IF trend_votes = 1 THEN (conf0 * 6) \div 10 ELSE conf0
        conf  == Clip(conf1, 0, Scale)
    IN IF ~ok THEN SignalComputation(FALSE, 0, "no sustained convergence")
       ELSE IF trend_votes = 1 THEN SignalComputation(TRUE, conf, "begun converging, uneven")
       ELSE SignalComputation(TRUE, conf, "converge, growing share")

\* signal_emerging_gap
\* signal_emerging_gap without the strong_sparse alternative
EmergingGapHeatOnly(whitespace_series, cohort_scores, neighbor_momentum) ==
    IF whitespace_series = <<>>
    THEN SignalComputation(FALSE, 0, "No whitespace scores available")
    ELSE
    LET current_score == whitespace_series[Len(whitespace_series)]
        percentile == pct_rank(current_score, cohort_scores)
        heated_neighbors == neighbor_momentum > 200
        ok == PctGE(percentile, 850) /\ heated_neighbors
        conf == Clip((550 * PctValue(percentile) + 450 * Max2(0, neighbor_momentum)) \div Scale,
                     0, Scale)
    IN IF ~ok THEN SignalComputation(FALSE, 0, "already covered")
       ELSE SignalComputation(TRUE, conf, "pocket, neighbors accelerate")

signal_emerging_gap(whitespace_series, cohort_scores, neighbor_momentum) ==
    IF whitespace_series = <<>>
    THEN SignalComputation(FALSE, 0, "No whitespace scores available")
    ELSE
    LET current_score == whitespace_series[Len(whitespace_series)]
        percentile == pct_rank(current_score, cohort_scores)
        strong_sparse == PctGE(percentile, 950)
        heated_neighbors == neighbor_momentum > 200
        ok == (PctGE(percentile, 850) /\ heated_neighbors) \/ strong_sparse
        conf0 == Clip((550 * PctValue(percentile) + 450 * Max2(0, neighbor_momentum)) \div Scale,
                      0, Scale)
        conf == IF ok /\ ~heated_neighbors THEN (conf0 * 75) \div 100 ELSE conf0
    IN IF ~ok THEN SignalComputation(FALSE, 0, "already covered")
       ELSE IF heated_neighbors THEN SignalComputation(TRUE, conf, "pocket, neighbors accelerate")
       ELSE SignalComputation(TRUE, conf, "pocket, neighbors inching")

\* np.quantile(series, q/1000) with linear interpolation, times 1000
QuantileScaled(series, q) ==
    LET s   == SortAsc(series)
        pos == q * (Len(s) - 1)
        lo  == pos \div Scale + 1
        fr  == pos % Scale
    IN IF fr = 0 THEN Scale * s[lo]
       ELSE Scale * s[lo] + fr * (s[lo + 1] - s[lo])

\* signal_crowd_out
signal_crowd_out(whitespace_series, density_series) ==
    IF Len(whitespace_series) < 2 \/ Len(density_series) < 2
    THEN SignalComputation(FALSE, 0, "Insufficient history")
    ELSE
    LET ws  == slope_conf(whitespace_series)
        den == slope_conf(density_series)
        recent_ws      == whitespace_series[Len(whitespace_series)]
        start_ws       == whitespace_series[1]
        recent_density == density_series[Len(density_series)]
        start_density  == density_series[1]
        ws_decline   == SlopeLT(ws, -2) \/ recent_ws < start_ws - 50
        density_gain == SlopeGT(den, 2) \/ recent_density > start_density + 50
        crowded_now  == /\ Scale * recent_ws <= QuantileScaled(whitespace_series, 350)
                        /\ Scale * recent_density >= QuantileScaled(density_series, 650)
        ok == (ws_decline /\ density_gain)
              \/ (crowded_now /\ (density_gain \/ SlopeGE(den, -1)))
        conf0 == Min2(Scale, (45 * (den.t + ws.t)) \div 100)
        conf1 == IF ~(ws_decline /\ density_gain) /\ ok THEN (conf0 * 7) \div 10 ELSE conf0
        conf  == Clip(conf1, 0, Scale)
    IN IF ~ok THEN SignalComputation(FALSE, 0, "breathing room")
       ELSE IF ws_decline /\ density_gain
            THEN SignalComputation(TRUE, conf, "filing aggressively")
       ELSE SignalComputation(TRUE, conf, "already tight")

\* signal_bridge
BridgeNoZeroing(openness, inter_weight, mom_left, mom_right) ==
    LET lo == Min2(mom_left, mom_right)
        shared == lo >= 200
        balanced == shared \/ (mom_left + mom_right >= 900 /\ lo >= 150)
    IN SignalComputation(openness <= 350 /\ inter_weight >= 500 /\ balanced,
                         Clip((lo * inter_weight) \div Scale, 0, Scale), "bridge")

\* signal_bridge without the 0.85 factor of asymmetric growth
BridgeNoDownweight(openness, inter_weight, mom_left, mom_right) ==
    LET lo == Min2(mom_left, mom_right)
        shared == lo >= 200
        balanced == shared \/ (mom_left + mom_right >= 900 /\ lo >= 150)
        ok == openness <= 350 /\ inter_weight >= 500 /\ balanced
    IN IF ~ok THEN SignalComputation(FALSE, 0, "no clear linking opportunity")
       ELSE SignalComputation(TRUE, Clip((lo * inter_weight) \div Scale, 0, Scale),
                              "both accelerating")

signal_bridge(openness, inter_weight, mom_left, mom_right) ==
    LET momentum_floor == 200
        openness_limit == 350
        weight_target  == 500
        shared_growth == Min2(mom_left, mom_right) >= momentum_floor
        \* avg_growth >= 0.45, on the doubled sum
        balanced_growth == shared_growth
                           \/ (mom_left + mom_right >= 900 /\ Min2(mom_left, mom_right) >= 150)
        ok == openness <= openness_limit /\ inter_weight >= weight_target /\ balanced_growth
        conf0 == Clip((Min2(mom_left, mom_right) * inter_weight) \div Scale, 0, Scale)
        conf == IF ok /\ ~shared_growth THEN (conf0 * 85) \div 100 ELSE conf0
    IN IF ~ok THEN SignalComputation(FALSE, 0, "no clear linking opportunity")
       ELSE IF shared_growth THEN SignalComputation(TRUE, conf, "both accelerating")
       ELSE SignalComputation(TRUE, conf, "at least one ramping")

\* build_group_signals._payload: the SignalPayload of one detector result
\* (the accumulation into the node maps is in build_group_signals)
SignalPayload(kind, st, confidence, why, node_ids) ==
    [type |-> kind, status |-> st, confidence |-> confidence, why |-> why,
     node_ids |-> node_ids]

_payload(kind, result, node_ids) ==
    SignalPayload(kind, status(result.ok, result.confidence),
                  Clip(result.confidence, 0, Scale), result.message, node_ids)

(***************************************************************************)
(* Signals: one call of a detector, or of status(), on drawn inputs        *)
(***************************************************************************)
MaxSeriesLen == 3
MaxCohort == 10

SeriesVals == {0, 500, 510}
SeriesSet == SeqsOf(SeriesVals, 0, MaxSeriesLen)
SampleCounts == {3, 4, 20, 40}
\* cohorts of len scores, k of them low
CohortSet == {[i \in 1..len |-> IF i <= k THEN 200 ELSE 800] :
                 <<len, k>> \in {x \in (0..MaxCohort) \X (0..MaxCohort) : x[2] <= x[1]}}
ScoreVals == {100, 500, 900}
MomentumVals == {0, 150, 199, 200, 201, 750, 1000}
OpennessVals == {0, 350, 351, 1000}
WeightVals == {0, 499, 500, 1000}
ConfidenceVals == (0 - 1)..(Scale + 1)

SignalsInit == sig_call = None /\ sig_res = None /\ sig_payload = None

CallFocusShift ==
    /\ sig_call = None
    /\ \E ds \in SeriesSet, ss \in SeriesSet, n \in SampleCounts :
         LET r == signal_focus_shift(ds, ss, n)
         IN /\ sig_call' = [fn |-> "focus_shift", dist_series |-> ds,
                            share_series |-> ss, n_samples |-> n]
            /\ sig_res' = r
            /\ sig_payload' = _payload("focus_shift", r, <<>>)
    /\ UNCHANGED NotSig

CallEmergingGap ==
    /\ sig_call = None
    /\ \E n \in 0..Min2(1, MaxSeriesLen), cur \in ScoreVals, co \in CohortSet,
          m \in MomentumVals :
         LET ws == [i \in 1..n |-> cur]
             r == signal_emerging_gap(ws, co, m)
         IN /\ sig_call' = [fn |-> "emerging_gap", whitespace_series |-> ws,
                            cohort_scores |-> co, neighbor_momentum |-> m]
            /\ sig_res' = r
            /\ sig_payload' = _payload("emerging_gap", r, <<>>)
    /\ UNCHANGED NotSig

CallCrowdOut ==
    /\ sig_call = None
    /\ \E ws \in SeriesSet, ds \in SeriesSet :
         LET r == signal_crowd_out(ws, ds)
         IN /\ sig_call' = [fn |-> "crowd_out", whitespace_series |-> ws,
                            density_series |-> ds]
            /\ sig_res' = r
            /\ sig_payload' = _payload("crowd_out", r, <<>>)
    /\ UNCHANGED NotSig

CallBridge ==
    /\ sig_call = None
    /\ \E o \in OpennessVals, w \in WeightVals, ml \in MomentumVals, mr \in MomentumVals :
         LET r == signal_bridge(o, w, ml, mr)
         IN /\ sig_call' = [fn |-> "bridge", openness |-> o, inter_weight |-> w,
                            mom_left |-> ml, mom_right |-> mr]
            /\ sig_res' = r
            /\ sig_payload' = _payload("bridge", r, <<>>)
    /\ UNCHANGED NotSig

\* status() of a SignalComputation built directly, as the tests build it
CallStatus ==
    /\ sig_call = None
    /\ \E ok \in BOOLEAN, c \in ConfidenceVals :
         /\ sig_call' = [fn |-> "status", ok |-> ok, confidence |-> c]
         /\ sig_res' = [status |-> status(ok, c)]
         /\ sig_payload' = None
    /\ UNCHANGED NotSig

SignalsNext == CallFocusShift \/ CallEmergingGap \/ CallCrowdOut \/ CallBridge \/ CallStatus

Detectors == {"focus_shift", "emerging_gap", "crowd_out", "bridge"}
DetectorCalled == sig_call # None /\ sig_call.fn \in Detectors

\* C1: a detector result with ok = False has confidence exactly 0, for every
\* input including those rejected as too short, and so has the payload that
\* build_group_signals builds from it.
C1_NotOkZeroConfidence ==
    (DetectorCalled /\ ~sig_res.ok) =>
        /\ sig_res.confidence = 0
        /\ sig_payload.confidence = 0
        /\ sig_payload.status = "none"

\* a bridge call refused although both momenta and the weight are positive
C1_Witness ==
    /\ DetectorCalled /\ sig_call.fn = "bridge" /\ ~sig_res.ok
    /\ sig_call.openness = 351 /\ sig_call.inter_weight = 1000
    /\ sig_call.mom_left = 1000 /\ sig_call.mom_right = 750
    /\ sig_res.confidence = 0

FocusCalled == sig_call # None /\ sig_call.fn = "focus_shift"

\* the two fits of a focus_shift call, and how many of the slopes are positive
FocusFits ==
    [dist |-> slope_conf([i \in 1..Len(sig_call.dist_series) |-> -sig_call.dist_series[i]]),
     share |-> slope_conf(sig_call.share_series)]
FocusVotes ==
    (IF SlopeGT(FocusFits.dist, 0) THEN 1 ELSE 0)
        + (IF SlopeGT(FocusFits.share, 0) THEN 1 ELSE 0)

\* the confidence reported, for the t-values and the sample count of the
\* call, when both trends are positive
FocusFullConfidence ==
    (Min2(Scale, (FocusFits.dist.t + FocusFits.share.t) \div 2)
        * Min2(Scale, (sig_call.n_samples * Scale) \div 40)) \div Scale

\* C17 as stated: a focus_shift result that is ok on exactly one positive
\* trend has half the confidence of both trends positive.
C17_PartialTrendHalved ==
    (FocusCalled /\ sig_res.ok /\ FocusVotes = 1) =>
        sig_res.confidence = FocusFullConfidence \div 2

\* C17: a focus_shift result that is ok on exactly one positive trend has
\* 0.6 times the confidence of both trends positive, and a result that is
\* ok on both has that confidence whole.
C17_PartialTrendSixTenths ==
    (FocusCalled /\ sig_res.ok) =>
        /\ FocusVotes = 1 => sig_res.confidence = (FocusFullConfidence * 6) \div 10
        /\ FocusVotes = 2 => sig_res.confidence = FocusFullConfidence

\* a call with a flat distance series and a rising share, reported ok with
\* a confidence above 0
C17_Witness ==
    /\ FocusCalled /\ sig_res.ok /\ FocusVotes = 1
    /\ sig_res.confidence > 0
    /\ FocusFullConfidence > sig_res.confidence

GapCalled ==
    /\ sig_call # None /\ sig_call.fn = "emerging_gap"
    /\ sig_call.whitespace_series # <<>>

\* the cohort scores at or below the latest score of the call are at least
\* c thousandths of the cohort
GapFractionAtLeast(c) ==
    LET co  == sig_call.cohort_scores
        cur == sig_call.whitespace_series[Len(sig_call.whitespace_series)]
    IN /\ co # <<>>
       /\ Cardinality({i \in 1..Len(co) : co[i] <= cur}) * Scale >= c * Len(co)

\* C18: for a non-empty score series signal_emerging_gap is ok iff
\* (percentile >= 0.85 and neighbor momentum > 0.2) or percentile >= 0.95,
\* the percentile being the fraction of cohort scores <= the latest score.
C18_EmergingGapOkIff ==
    GapCalled =>
        (sig_res.ok <=>
            \/ GapFractionAtLeast(850) /\ sig_call.neighbor_momentum > 200
            \/ GapFractionAtLeast(950))

\* an extremely sparse pocket without heat: percentile >= 0.95, momentum
\* at most 0.2, reported ok
C18_Witness ==
    /\ GapCalled /\ sig_res.ok
    /\ GapFractionAtLeast(950)
    /\ sig_call.neighbor_momentum <= 200

BridgeCalled == sig_call # None /\ sig_call.fn = "bridge"

\* the smaller of the two momenta of a bridge call
BridgeMinMomentum == Min2(sig_call.mom_left, sig_call.mom_right)

\* C19: signal_bridge is ok iff openness <= 0.35 and inter_weight >= 0.5 and
\* (min momentum >= 0.2, or average momentum >= 0.45 and min momentum >= 0.15);
\* when ok, its confidence is min momentum times inter_weight, multiplied by
\* 0.85 exactly when min momentum < 0.2.
C19_BridgeOkAndConfidence ==
    BridgeCalled =>
        /\ sig_res.ok <=>
              /\ sig_call.openness <= 350
              /\ sig_call.inter_weight >= 500
              /\ \/ BridgeMinMomentum >= 200
                 \/ /\ sig_call.mom_left + sig_call.mom_right >= 2 * 450
                    /\ BridgeMinMomentum >= 150
        /\ sig_res.ok =>
              sig_res.confidence =
                  IF BridgeMinMomentum < 200
                  THEN (((BridgeMinMomentum * sig_call.inter_weight) \div Scale) * 85) \div 100
                  ELSE (BridgeMinMomentum * sig_call.inter_weight) \div Scale

\* asymmetric growth: one side below 0.2, reported ok with the reduced
\* confidence
C19_Witness ==
    /\ BridgeCalled /\ sig_res.ok
    /\ BridgeMinMomentum < 200
    /\ sig_res.confidence > 0
    /\ sig_res.confidence < (BridgeMinMomentum * sig_call.inter_weight) \div Scale

\* C2: status() depends on (ok, confidence) only: none iff not ok or
\* confidence <= 0, else weak below 0.33, medium from 0.33 to below 0.66,
\* strong from 0.66.
C2_StatusBuckets ==
    (sig_call # None /\ sig_call.fn = "status") =>
        LET ok == sig_call.ok
            c == sig_call.confidence
            st == sig_res.status
        IN /\ (st = "none") <=> (~ok \/ c <= 0)
           /\ (st = "weak") <=> (ok /\ c > 0 /\ c < 330)
           /\ (st = "medium") <=> (ok /\ c >= 330 /\ c < 660)
           /\ (st = "strong") <=> (ok /\ c >= 660)
           /\ st \in {"none", "weak", "medium", "strong"}

\* the boundary value 0.33 is bucketed medium
C2_Witness ==
    /\ sig_call # None /\ sig_call.fn = "status"
    /\ sig_call.ok /\ sig_call.confidence = 330 /\ sig_res.status = "medium"

(***************************************************************************)
(* Assignee canonicaliser.  A Python str is a sequence of one-character    *)
(* strings; a token list is a sequence of such sequences.                  *)
(***************************************************************************)
_ASSIGNEE_RAW_SUFFIXES ==
    <<<<"I", "N", "C">>,
       <<"L", "L", "C">>,
       <<"C", "O", "R", "P">>,
       <<"L", "T", "D">>,
       <<"C", "O", "R", "P", "O", "R", "A", "T", "I", "O", "N">>,
       <<"I", "N", "C", "O", "R", "P", "O", "R", "A", "T", "E", "D">>,
       <<"I", "N", "C", "O", "R", "P">>,
       <<"C", "O", "M", "P", "A", "N", "Y">>,
       <<"L", "I", "M", "I", "T", "E", "D">>,
       <<"G", "M", "B", "H">>,
       <<"A", "S", "S">>,
       <<"P", "T", "Y">>,
       <<"M", "F", "F">>,
       <<"S", "Y", "S">>,
       <<"M", "A", "N">>,
       <<"L", " ", "Y">>,
       <<"L", " ", "P">>,
       <<"L", "Y">>,
       <<"L", "P">>,
       <<"O", "Y">>,
       <<"N", "V">>,
       <<"S", "A", "S">>,
       <<"C", "O">>,
       <<"B", "V">>,
       <<"A", "G">>,
       <<"A", " ", "G">>,
       <<"A", " ", "B">>,
       <<"O", " ", "Y">>,
       <<"N", " ", "V">>,
       <<"S", " ", "E">>,
       <<"N", " ", "A">>,
       <<"M", "A", "N", "F">>,
       <<"I", "N", "S", "T">>,
       <<"B", " ", "V">>,
       <<"I", "N", "T">>,
       <<"I", "N", "D">>,
       <<"K", "K">>,
       <<"S", "E">>,
       <<"A", "B">>,
       <<"I", "N", "T", "L">>,
       <<"I", "N", "D", "S", "T">>,
       <<"N", "A">>>>

UpperCase == {"A", "B", "C", "D", "E", "F", "G", "H", "I", "J", "K", "L", "M",
              "N", "O", "P", "Q", "R", "S", "T", "U", "V", "W", "X", "Y", "Z"}
Digits == {"0", "1", "2", "3", "4", "5", "6", "7", "8", "9"}
ToUpper == [a |-> "A", b |-> "B", c |-> "C", d |-> "D", e |-> "E", f |-> "F", g |-> "G", h |-> "H", i |-> "I", j |-> "J", k |-> "K", l |-> "L", m |-> "M", n |-> "N", o |-> "O", p |-> "P", q |-> "Q", r |-> "R", s |-> "S", t |-> "T", u |-> "U", v |-> "V", w |-> "W", x |-> "X", y |-> "Y", z |-> "Z"]
LowerCase == DOMAIN ToUpper

\* str.upper() on one character and on a str
UpperChar(c) == IF c \in LowerCase THEN ToUpper[c] ELSE c
Upper(s) == [i \in 1..Len(s) |-> UpperChar(s[i])]

\* re.sub(r"[^0-9A-Za-z]+", " ", value): every maximal run of other
\* characters becomes one space
RECURSIVE ReSubNonAlnum(_)
ReSubNonAlnum(s) ==
    IF s = <<>> THEN <<>>
    ELSE IF Head(s) \in Digits \cup UpperCase \cup LowerCase
         THEN <<Head(s)>> \o ReSubNonAlnum(Tail(s))
    ELSE LET rest == ReSubNonAlnum(Tail(s))
         IN IF Len(s) >= 2 /\ s[2] \notin Digits \cup UpperCase \cup LowerCase
            THEN rest
            ELSE <<" ">> \o rest

\* str.split(): the maximal runs of non-space characters
RECURSIVE SplitFrom(_, _)
SplitFrom(s, cur) ==
    IF s = <<>> THEN (IF cur = <<>> THEN <<>> ELSE <<cur>>)
    ELSE IF Head(s) = " "
         THEN (IF cur = <<>> THEN <<>> ELSE <<cur>>) \o SplitFrom(Tail(s), <<>>)
    ELSE SplitFrom(Tail(s), Append(cur, Head(s)))

Split(s) == SplitFrom(s, <<>>)

\* " ".join(tokens)
RECURSIVE Join(_)
Join(tokens) ==
    IF tokens = <<>> THEN <<>>
    ELSE IF Len(tokens) = 1 THEN tokens[1]
    ELSE tokens[1] \o <<" ">> \o Join(Tail(tokens))

\* str.strip() of spaces
RECURSIVE LStrip(_)
LStrip(s) == IF s # <<>> /\ Head(s) = " " THEN LStrip(Tail(s)) ELSE s
RECURSIVE RStrip(_)
RStrip(s) == IF s # <<>> /\ s[Len(s)] = " " THEN RStrip(SubSeq(s, 1, Len(s) - 1)) ELSE s
Strip(s) == RStrip(LStrip(s))

\* sorted(seq, key=len, reverse=True): stable, longest first
RECURSIVE InsertByLenDesc(_, _)
InsertByLenDesc(x, s) ==
    IF s = <<>> THEN <<x>>
    ELSE IF Len(Head(s)) >= Len(x) THEN <<Head(s)>> \o InsertByLenDesc(x, Tail(s))
    ELSE <<x>> \o s

RECURSIVE SortedByLenDesc(_)
SortedByLenDesc(s) ==
    IF s = <<>> THEN <<>>
    ELSE InsertByLenDesc(s[Len(s)], SortedByLenDesc(SubSeq(s, 1, Len(s) - 1)))

\* list(dict.fromkeys(...)): first occurrences, in order
RECURSIVE Dedupe(_)
Dedupe(s) ==
    IF s = <<>> THEN <<>>
    ELSE LET init == Dedupe(SubSeq(s, 1, Len(s) - 1))
             x == s[Len(s)]
         IN IF \E i \in 1..Len(init) : init[i] = x THEN init ELSE Append(init, x)

SelectNonEmpty(s) == SelectSeq(s, LAMBDA x : x # <<>>)

_ASSIGNEE_SUFFIXES ==
    SortedByLenDesc(Dedupe(SelectNonEmpty([i \in 1..Len(_ASSIGNEE_RAW_SUFFIXES) |->
                                              Upper(Strip(_ASSIGNEE_RAW_SUFFIXES[i]))])))

_remove_punct_and_collapse(value) == Upper(Join(Split(ReSubNonAlnum(value))))

\* suffix.split() of every suffix
SuffixParts == [i \in 1..Len(_ASSIGNEE_SUFFIXES) |-> Split(_ASSIGNEE_SUFFIXES[i])]

\* " " in suffix
HasSpace == [i \in 1..Len(_ASSIGNEE_SUFFIXES) |->
                \E j \in 1..Len(_ASSIGNEE_SUFFIXES[i]) : _ASSIGNEE_SUFFIXES[i][j] = " "]

\* one pass of the for loop: the tokens after stripping the first suffix,
\* from the i-th on, that matches the tail, or the tokens unchanged
RECURSIVE StripFirstMatch(_, _)
StripFirstMatch(tokens, i) ==
    IF i > Len(_ASSIGNEE_SUFFIXES) THEN tokens
    ELSE LET parts == SuffixParts[i]
             n == Len(parts)
         IN IF HasSpace[i]
            THEN IF n <= Len(tokens) /\ SubSeq(tokens, Len(tokens) - n + 1, Len(tokens)) = parts
                 THEN SubSeq(tokens, 1, Len(tokens) - n)
                 ELSE StripFirstMatch(tokens, i + 1)
            ELSE IF tokens # <<>> /\ tokens[Len(tokens)] = _ASSIGNEE_SUFFIXES[i]
                 THEN SubSeq(tokens, 1, Len(tokens) - 1)
                 ELSE StripFirstMatch(tokens, i + 1)

\* the while loop: repeat until a pass changes nothing or no token is left
RECURSIVE StripSuffixes(_)
StripSuffixes(tokens) ==
    IF tokens = <<>> THEN tokens
    ELSE LET next == StripFirstMatch(tokens, 1)
         IN IF next = tokens THEN tokens ELSE StripSuffixes(next)

CanonicalizeStripOnce(name) ==
    Strip(Join(StripFirstMatch(Split(_remove_punct_and_collapse(name)), 1)))

\* the bug of matching suffixes on characters instead of on whole tokens
RECURSIVE StripCharSuffixes(_, _)
StripCharSuffixes(s, i) ==
    IF i > Len(_ASSIGNEE_SUFFIXES) THEN s
    ELSE LET suffix == _ASSIGNEE_SUFFIXES[i]
         IN IF Len(s) >= Len(suffix) /\ SubSeq(s, Len(s) - Len(suffix) + 1, Len(s)) = suffix
            THEN StripCharSuffixes(Strip(SubSeq(s, 1, Len(s) - Len(suffix))), 1)
            ELSE StripCharSuffixes(s, i + 1)

CanonicalizeOnCharacters(name) == StripCharSuffixes(_remove_punct_and_collapse(name), 1)

_canonicalize_assignee_for_lookup(name) ==
    IF name = <<>> THEN <<>>
    ELSE LET tokens == Split(_remove_punct_and_collapse(name))
         IN IF tokens = <<>> THEN <<>>
            ELSE Strip(Join(StripSuffixes(tokens)))

(***************************************************************************)
(* Canon: one name is canonicalised, and its result canonicalised again    *)
(***************************************************************************)
MaxWords == 3

RawWords == {<<"A", "c", "m", "e">>, <<"C", "o", "r", "p">>, <<"I", "n", "c">>,
             <<"L">>, <<"P">>}
RawSeps == {<<" ">>, <<".", ",", " ">>, <<>>}
RawEnds == {<<>>, <<".">>}

RECURSIVE Concat(_)
Concat(ss) == IF ss = <<>> THEN <<>> ELSE Head(ss) \o Concat(Tail(ss))

\* names of up to MaxWords words, each followed by a separator
NameSet ==
    {Concat(ps) \o e : ps \in SeqsOf({w \o s : w \in RawWords, s \in RawSeps}, 0, MaxWords),
                       e \in RawEnds}

NotCalled == <<"not called">>

CanonInit == canon_name = NotCalled /\ canon_once = NotCalled /\ canon_twice = NotCalled

\* a request arrives with an assignee query
ReceiveName ==
    /\ canon_name = NotCalled
    /\ \E name \in NameSet : canon_name' = name
    /\ UNCHANGED <<canon_once, canon_twice>>
    /\ UNCHANGED NotCanon

Canonicalize ==
    /\ canon_name # NotCalled /\ canon_once = NotCalled
    /\ canon_once' = _canonicalize_assignee_for_lookup(canon_name)
    /\ canon_twice' = _canonicalize_assignee_for_lookup(
                          _canonicalize_assignee_for_lookup(canon_name))
    /\ UNCHANGED canon_name
    /\ UNCHANGED NotCanon

CanonNext == ReceiveName \/ Canonicalize

AcmeCorpInc == <<"A", "c", "m", "e", " ", "C", "o", "r", "p", ".", ",", " ", "I", "n", "c", ".">>

\* C8: canonicalisation is idempotent.
C8_Idempotent == canon_once # NotCalled => canon_twice = canon_once

\* a name whose canonical form lost two suffixes and is a fixed point
C8_Witness ==
    /\ canon_name = AcmeCorpInc
    /\ canon_once = <<"A", "C", "M", "E">> /\ canon_twice = canon_once

\* C9 as stated: "Acme Corp., Inc." normalizes to "ACME CORP".
C9_AcmeCorpKept ==
    (canon_name = AcmeCorpInc /\ canon_once # NotCalled) => canon_once = <<"A", "C", "M", "E", " ", "C", "O", "R", "P">>

IsPrefixOf(p, s) == Len(p) <= Len(s) /\ SubSeq(s, 1, Len(p)) = p

SuffixWords == UNION {{SuffixParts[i][j] : j \in 1..Len(SuffixParts[i])} : i \in DOMAIN SuffixParts}

\* C9 amended: "Acme Corp., Inc." normalizes to "ACME"; whatever the name,
\* only whole trailing tokens that are suffix words are removed, no token is
\* cut, and what is left ends with no suffix.
C9_AcmeAndWholeTokens ==
    canon_once # NotCalled =>
        LET tokens == Split(_remove_punct_and_collapse(canon_name))
            kept == Split(canon_once)
        IN /\ canon_name = AcmeCorpInc => canon_once = <<"A", "C", "M", "E">>
           /\ IsPrefixOf(kept, tokens)
           /\ \A i \in (Len(kept) + 1)..Len(tokens) : tokens[i] \in SuffixWords
           /\ StripFirstMatch(kept, 1) = kept

\* a merged token ending in the letters of a suffix is kept whole
C9_Witness ==
    /\ canon_name = <<"A", "c", "m", "e", "C", "o", "r", "p", " ", "I", "n", "c", ".">>
    /\ canon_once = <<"A", "C", "M", "E", "C", "O", "R", "P">>

(***************************************************************************)
(* Request validation                                                      *)
(***************************************************************************)
MAX_GRAPH_LIMIT == 2000
MAX_GRAPH_NEIGHBORS == 50
MAX_GRAPH_LAYOUT_NEIGHBORS == 50

\* an absent (None) str
NoneStr == <<"None">>

\* _validate_graph_params: the list of violations; the request is rejected
\* with HTTP 400 and this list as detail when it is not empty
ValidateFirstOnly(req) ==
    IF ~(1 <= req.limit /\ req.limit <= MAX_GRAPH_LIMIT) THEN <<"limit">>
    ELSE IF ~(1 <= req.neighbors /\ req.neighbors <= MAX_GRAPH_NEIGHBORS) THEN <<"neighbors">>
    ELSE IF ~(2 <= req.layout_neighbors /\ req.layout_neighbors <= MAX_GRAPH_LAYOUT_NEIGHBORS)
         THEN <<"layout_neighbors">>
    ELSE IF req.search_mode = "assignee"
            /\ (req.assignee_query = NoneStr \/ req.assignee_query = <<>>
                \/ Strip(req.assignee_query) = <<>>)
         THEN <<"assignee_query">>
    ELSE <<>>

_validate_graph_params(req) ==
    LET v1 == IF ~(1 <= req.limit /\ req.limit <= MAX_GRAPH_LIMIT)
              THEN <<"limit">> ELSE <<>>
        v2 == IF ~(1 <= req.neighbors /\ req.neighbors <= MAX_GRAPH_NEIGHBORS)
              THEN Append(v1, "neighbors") ELSE v1
        v3 == IF ~(2 <= req.layout_neighbors
                   /\ req.layout_neighbors <= MAX_GRAPH_LAYOUT_NEIGHBORS)
              THEN Append(v2, "layout_neighbors") ELSE v2
        v4 == IF req.search_mode = "assignee"
                 /\ (req.assignee_query = NoneStr \/ req.assignee_query = <<>>
                     \/ Strip(req.assignee_query) = <<>>)
              THEN Append(v3, "assignee_query") ELSE v3
    IN v4

LimitVals == {0, 1, MAX_GRAPH_LIMIT, MAX_GRAPH_LIMIT + 1}
NeighborVals == {0, 1, MAX_GRAPH_NEIGHBORS, MAX_GRAPH_NEIGHBORS + 1}
LayoutNeighborVals == {1, 2, MAX_GRAPH_LAYOUT_NEIGHBORS, MAX_GRAPH_LAYOUT_NEIGHBORS + 1}
SearchModes == {"keywords", "assignee"}
QueryVals == {NoneStr, <<>>, <<" ", " ">>, <<"A", "c", "m", "e">>}

ValidateInit == val_req = None /\ val_res = None

Validate ==
    /\ val_req = None
    /\ \E l \in LimitVals, nb \in NeighborVals, ln \in LayoutNeighborVals,
          sm \in SearchModes, q \in QueryVals :
         LET req == [limit |-> l, neighbors |-> nb, layout_neighbors |-> ln,
                     search_mode |-> sm, assignee_query |-> q]
             violations == _validate_graph_params(req)
         IN /\ val_req' = req
            /\ val_res' = IF violations # <<>>
                          THEN [raised |-> TRUE, status_code |-> 400, detail |-> violations]
                          ELSE [raised |-> FALSE, status_code |-> 200, detail |-> <<>>]
    /\ UNCHANGED NotVal

ValidateNext == Validate

\* the constraints a request violates
Violated(req) ==
    (IF req.limit < 1 \/ req.limit > 2000 THEN {"limit"} ELSE {})
    \cup (IF req.neighbors < 1 \/ req.neighbors > 50 THEN {"neighbors"} ELSE {})
    \cup (IF req.layout_neighbors < 2 \/ req.layout_neighbors > 50
          THEN {"layout_neighbors"} ELSE {})
    \cup (IF req.search_mode = "assignee"
             /\ req.assignee_query \in {NoneStr, <<>>, <<" ", " ">>}
          THEN {"assignee_query"} ELSE {})

\* C10: _validate_graph_params rejects exactly the requests that violate a
\* bound on limit, neighbors or layout_neighbors or that ask for assignee
\* mode with an empty or blank query, and the rejection lists every violated
\* constraint, each once.
C10_ValidationListsAll ==
    val_req # None =>
        /\ val_res.raised <=> Violated(val_req) # {}
        /\ {val_res.detail[i] : i \in 1..Len(val_res.detail)} = Violated(val_req)
        /\ Len(val_res.detail) = Cardinality(Violated(val_req))
        /\ val_res.raised => val_res.status_code = 400

\* a request violating all four constraints is rejected with all four listed
C10_Witness ==
    /\ val_req # None /\ val_res.raised
    /\ val_res.detail = <<"limit", "neighbors", "layout_neighbors", "assignee_query">>

(***************************************************************************)
(* Rolling window.  A date is a day number >= 0; NoDate is None, which is  *)
(* also what _parse_date_str makes of an absent or malformed date string.  *)
(***************************************************************************)
NoDate == 0 - 1

\* days from the stored integer YYYYMMDD (no leap year in the dates drawn)
CumDays == <<0, 31, 59, 90, 120, 151, 181, 212, 243, 273, 304, 334>>
DayNumber(v) == (v \div 10000) * 365 + CumDays[(v \div 100) % 100] + (v % 100) - 1

\* date.min, 0001-01-01: a date minus a timedelta below it raises OverflowError
DateMin == DayNumber(10101)

\* the outcome of _window_bounds when it raises OverflowError
Overflow == 0 - 2

\* WindowRaw without the clamp of start_date to the earliest node date
WindowRawUnclamped(date_from, date_to, dates) ==
    LET dated    == {dates[i] : i \in 1..Len(dates)} \ {NoDate}
        latest   == SetMax(dated)
        earliest == SetMin(dated)
        req_end  == date_to
        end_date == IF req_end # NoDate THEN Min2(latest, req_end) ELSE latest
        req_start == date_from
        from_req == req_start # NoDate /\ req_start <= end_date
        back == IF from_req
                THEN LET span == end_date - req_start
                         span_days == IF span > 0 THEN Min2(Max2(span, 180), 365) ELSE 365
                     IN end_date - span_days
                ELSE end_date - 365
        start0 == IF from_req THEN Max2(req_start, back) ELSE back
        start_date == start0
    IN [start_date |-> start_date, end_date |-> end_date, back |-> back]

\* end_date and start_date of _window_bounds before the 60-day floor, for a
\* group with at least one dated node; back is end_date minus the timedelta
WindowRaw(date_from, date_to, dates) ==
    LET dated    == {dates[i] : i \in 1..Len(dates)} \ {NoDate}
        latest   == SetMax(dated)
        earliest == SetMin(dated)
        req_end  == date_to
        end_date == IF req_end # NoDate THEN Min2(latest, req_end) ELSE latest
        req_start == date_from
        from_req == req_start # NoDate /\ req_start <= end_date
        back == IF from_req
                THEN LET span == end_date - req_start
                         span_days == IF span > 0 THEN Min2(Max2(span, 180), 365) ELSE 365
                     IN end_date - span_days
                ELSE end_date - 365
        start0 == IF from_req THEN Max2(req_start, back) ELSE back
        start_date == IF start0 < earliest THEN earliest ELSE start0
    IN [start_date |-> start_date, end_date |-> end_date, back |-> back]

\* _window_bounds without the 60-day floor
WindowBoundsNoFloor(date_from, date_to, dates) ==
    IF {dates[i] : i \in 1..Len(dates)} \ {NoDate} = {} THEN <<NoDate, NoDate>>
    ELSE LET w == WindowRaw(date_from, date_to, dates)
         IN IF w.back < DateMin THEN <<Overflow, Overflow>>
            ELSE <<w.start_date, w.end_date>>

\* _window_bounds: <<start_date, end_date>>, <<NoDate, NoDate>> for
\* (None, None), or <<Overflow, Overflow>> when the subtraction raises
_window_bounds(date_from, date_to, dates) ==
    IF {dates[i] : i \in 1..Len(dates)} \ {NoDate} = {} THEN <<NoDate, NoDate>>
    ELSE LET w == WindowRaw(date_from, date_to, dates)
         IN IF w.back < DateMin THEN <<Overflow, Overflow>>
            ELSE IF w.end_date - w.start_date < 60 THEN <<NoDate, NoDate>>
            ELSE <<w.start_date, w.end_date>>

(***************************************************************************)
(* Window: one call of _window_bounds for the nodes of a group that        *)
(* load_embeddings passed.  A request date is a record [day, padded]:      *)
(* "YYYY-MM-DD" with or without the zero padding of month and day.         *)
(***************************************************************************)
NoReqDate == [day |-> NoDate, padded |-> TRUE]

\* _parse_date_str: strptime reads padded and unpadded fields alike
_parse_date_str(value) == value.day

\* _to_int_date, as the day the stored dates are compared with: int() of the
\* joined fields is the date itself when they are padded, and has fewer than
\* eight digits, below every stored date, when they are not
_to_int_date(value) ==
    IF value = NoReqDate THEN NoDate ELSE IF value.padded THEN value.day ELSE 0

\* the WHERE clause of load_embeddings on pub_date (NULL passes no comparison)
DateFilter(date_from, date_to, pub_date) ==
    /\ _to_int_date(date_from) # NoDate =>
          pub_date # NoDate /\ pub_date >= _to_int_date(date_from)
    /\ _to_int_date(date_to) # NoDate =>
          pub_date # NoDate /\ pub_date < _to_int_date(date_to)

MaxGroupNodes == 3

\* day numbers are counted from 2000-01-01 in the dates drawn
Epoch == DayNumber(20000101)

DayVals == {Epoch + d : d \in {0, 45, 100, 400, 500, 1000}}

\* a stored pub_date of 00010615, which _from_int_date reads as a date
EarlyDay == DayNumber(10615)

OptDays == DayVals \cup {EarlyDay, NoDate}
ReqDates == {NoReqDate} \cup {[day |-> d, padded |-> p] : d \in DayVals, p \in BOOLEAN}

WindowInit == win_call = None /\ win_res = None

WindowBounds ==
    /\ win_call = None
    /\ \E df \in ReqDates, dt \in ReqDates, dates \in SeqsOf(OptDays, 1, MaxGroupNodes) :
         /\ \A i \in 1..Len(dates) : DateFilter(df, dt, dates[i])
         /\ win_call' = [date_from |-> df, date_to |-> dt, dates |-> dates]
         /\ win_res' = [ret |-> _window_bounds(_parse_date_str(df), _parse_date_str(dt),
                                               dates)]
    /\ UNCHANGED NotWin

WindowNext == WindowBounds

WinDated == {win_call.dates[i] : i \in 1..Len(win_call.dates)} \ {NoDate}

\* the window that results from end and start, under the 60-day floor
Floor60(start, end) == IF end - start < 60 THEN <<NoDate, NoDate>> ELSE <<start, end>>

C4_StartFromDateFrom ==
    (win_call # None /\ WinDated # {}) =>
        LET df == _parse_date_str(win_call.date_from)
            dt == _parse_date_str(win_call.date_to)
            end == IF dt # NoDate THEN Min2(SetMax(WinDated), dt) ELSE SetMax(WinDated)
            start == IF df # NoDate
                     THEN Max2(df, end - Clip(end - df, 180, 365))
                     ELSE end - 365
        IN /\ win_res.ret = Floor60(Max2(start, SetMin(WinDated)), end)
           /\ (df # NoDate /\ win_res.ret # <<NoDate, NoDate>>) => win_res.ret[1] >= df

(***************************************************************************)
(* Momentum.  patent.pub_date is stored as the integer YYYYMMDD (see       *)
(* _to_int_date, _from_int_date); NULL is NoDate.  The SQL of              *)
(* neighbor_momentum computes on the stored integers.                      *)
(***************************************************************************)

\* SELECT (MAX(pub_date) - 90) AS c FROM d; NULL when no row has a date
MomentumCutoff(rows) ==
    LET dated == {rows[i].pub_date : i \in DOMAIN rows} \ {NoDate}
    IN IF dated = {} THEN NoDate ELSE SetMax(dated) - 90

\* CASE WHEN pub_date >= c THEN 1.0 ELSE -0.25 END; a comparison with NULL
\* is not true
MomentumContribution(pub_date, c) ==
    IF pub_date # NoDate /\ c # NoDate /\ pub_date >= c THEN Scale ELSE 0 - 250

\* the bug of leaving out GREATEST(0.0, ...)
ClusterSumNoFloor(rows, cid) ==
    LET c == MomentumCutoff(rows)
    IN SeqSum([i \in DOMAIN rows |->
                  IF rows[i].cluster_id = cid
                  THEN MomentumContribution(rows[i].pub_date, c) ELSE 0])

\* GREATEST(0.0, SUM(...)) of one cluster
ClusterSum(rows, cid) ==
    LET c == MomentumCutoff(rows)
    IN Max2(0, SeqSum([i \in DOMAIN rows |->
                          IF rows[i].cluster_id = cid
                          THEN MomentumContribution(rows[i].pub_date, c) ELSE 0]))

\* the dense table by cluster id, before normalisation: entry cid + 1 is
\* the sum of cluster cid, 0 for an id without rows
MomentumDense(rows) ==
    LET max_cid == SetMax({rows[i].cluster_id : i \in DOMAIN rows})
    IN [k \in 1..(max_cid + 1) |->
           IF \E i \in DOMAIN rows : rows[i].cluster_id = k - 1
           THEN ClusterSum(rows, k - 1) ELSE 0]

\* neighbor_momentum, for a non-empty population; entry cid + 1 is the
\* momentum of cluster cid
neighbor_momentum(rows) ==
    LET arr == MomentumDense(rows)
        mmax == SetMax({arr[k] : k \in DOMAIN arr})
    IN IF mmax > 0 THEN [k \in DOMAIN arr |-> (arr[k] * Scale) \div mmax] ELSE arr

MaxMomNodes == 5

\* stored dates: 2023-03-15, 2023-02-01 (42 days earlier), 2022-12-01
\* (104 days earlier), and NULL
StoredDates == <<20230315, 20230201, 20221201, NoDate>>
MomClusters == {0, 1}
RowKinds == {[cluster_id |-> c, pub_date |-> StoredDates[d]] :
                c \in MomClusters, d \in DOMAIN StoredDates}
RowRank(r) == r.cluster_id * 100000000 + r.pub_date

\* populations up to the order of their rows, with cluster ids contiguous
\* from 0; get_whitespace_graph goes on only with more nodes than
\* layout_neighbors, which is at least 2
MomPopulations ==
    {rows \in SeqsOf(RowKinds, 3, MaxMomNodes) :
        /\ \A i \in 1..(Len(rows) - 1) : RowRank(rows[i]) <= RowRank(rows[i + 1])
        /\ rows[1].cluster_id = 0}

MomentumInit == mom_rows = <<>> /\ mom_res = <<>>

NeighborMomentum ==
    /\ mom_rows = <<>>
    /\ \E rows \in MomPopulations :
         /\ mom_rows' = rows
         /\ mom_res' = neighbor_momentum(rows)
    /\ UNCHANGED NotMom

MomentumNext == NeighborMomentum

MomRan == mom_rows # <<>>
MomEntries == {mom_res[k] : k \in DOMAIN mom_res}

\* C6 as stated: every entry of the momentum table lies in [0,1] and some
\* cluster has momentum exactly 1.
C6_SomeClusterAtOne ==
    MomRan =>
        /\ \A k \in DOMAIN mom_res : 0 <= mom_res[k] /\ mom_res[k] <= Scale
        /\ \E k \in DOMAIN mom_res : mom_res[k] = Scale

\* rows of cluster cid dated on or after the cutoff, and its other rows
RecentRows(rows, cid) ==
    {i \in DOMAIN rows : /\ rows[i].cluster_id = cid
                         /\ rows[i].pub_date # NoDate
                         /\ rows[i].pub_date >= MomentumCutoff(rows)}
OtherRows(rows, cid) == {i \in DOMAIN rows : rows[i].cluster_id = cid} \ RecentRows(rows, cid)

\* cluster cid gains: its recent rows outweigh a quarter of its other rows
Gains(rows, cid) == 4 * Cardinality(RecentRows(rows, cid)) > Cardinality(OtherRows(rows, cid))

\* C6 amended: every entry lies in [0,1]; when some cluster's summed
\* contribution is positive the largest entry is exactly 1 and belongs to
\* such a cluster, and when none is, every entry is 0.
C6_MaxNormalizedOrAllZero ==
    MomRan =>
        /\ \A k \in DOMAIN mom_res : 0 <= mom_res[k] /\ mom_res[k] <= Scale
        /\ IF \E k \in DOMAIN mom_res : Gains(mom_rows, k - 1)
           THEN \E k \in DOMAIN mom_res : Gains(mom_rows, k - 1) /\ mom_res[k] = Scale
           ELSE \A k \in DOMAIN mom_res : mom_res[k] = 0
        /\ \A k \in DOMAIN mom_res : ~Gains(mom_rows, k - 1) => mom_res[k] = 0

\* the only cluster with a recent node has four older ones: no entry is 1
C6_Witness ==
    /\ MomRan /\ Len(mom_rows) = 5
    /\ \A i \in DOMAIN mom_rows : mom_rows[i].cluster_id = 0
    /\ Cardinality(RecentRows(mom_rows, 0)) = 1
    /\ mom_res = <<0>>

\* the table of the specification: cutoff 90 days before the latest date,
\* +1 for a node dated on or after it and -0.25 otherwise, summed per
\* cluster, floored at 0, divided by the maximum
RecentByDays(rows, i) ==
    LET dated == {rows[j].pub_date : j \in DOMAIN rows} \ {NoDate}
    IN /\ rows[i].pub_date # NoDate
       /\ DayNumber(rows[i].pub_date) >= DayNumber(SetMax(dated)) - 90

SumByDays(rows, cid) ==
    Max2(0, SeqSum([i \in DOMAIN rows |->
                       IF rows[i].cluster_id # cid THEN 0
                       ELSE IF RecentByDays(rows, i) THEN Scale ELSE 0 - 250]))

TableByDays(rows) ==
    LET max_cid == SetMax({rows[i].cluster_id : i \in DOMAIN rows})
        arr == [k \in 1..(max_cid + 1) |-> SumByDays(rows, k - 1)]
        mmax == SetMax({arr[k] : k \in DOMAIN arr})
    IN IF mmax > 0 THEN [k \in DOMAIN arr |-> (arr[k] * Scale) \div mmax] ELSE arr

\* C7: the momentum table is the one computed with a cutoff 90 days before
\* the latest date (+1 from the cutoff on, -0.25 before, floored at 0, then
\* normalised), and a cluster without a node dated on or after that cutoff,
\* dated nodes or not, has momentum 0.
C7_CutoffNinetyDays ==
    MomRan =>
        /\ mom_res = TableByDays(mom_rows)
        /\ \A k \in DOMAIN mom_res :
              (\A i \in DOMAIN mom_rows :
                  mom_rows[i].cluster_id = k - 1 => ~RecentByDays(mom_rows, i))
                 => mom_res[k] = 0

(***************************************************************************)
(* Grouper and time-series builder.  Here a date is a day number in a      *)
(* calendar of 365-day years; a pub_id is a number, ordered as the ids     *)
(* are; a NodeDatum is a record.                                           *)
(***************************************************************************)
\* _month_floor, as the number of the month: 12 * year + month - 1
_month_floor(d) ==
    LET doy == d % 365
    IN (d \div 365) * 12 + Cardinality({m \in 1..12 : CumDays[m] <= doy}) - 1

\* float(np.mean(values))
Mean(values) == SeqSum(values) \div Len(values)

\* sorted(items, key=...): the indices of keys in stable ascending key order
RECURSIVE InsertIndex(_, _, _)
InsertIndex(i, order, keys) ==
    IF order = <<>> THEN <<i>>
    ELSE IF keys[Head(order)] <= keys[i]
         THEN <<Head(order)>> \o InsertIndex(i, Tail(order), keys)
    ELSE <<i>> \o order

RECURSIVE SortedIndices(_, _)
SortedIndices(keys, n) ==
    IF n = 0 THEN <<>> ELSE InsertIndex(n, SortedIndices(keys, n - 1), keys)

SortByKey(items, keys) ==
    LET order == SortedIndices(keys, Len(items))
    IN [i \in 1..Len(items) |-> items[order[i]]]

\* seq[:n] and seq[-n:]
Take(seq, n) == SubSeq(seq, 1, Min2(n, Len(seq)))
LastN(seq, n) == SubSeq(seq, Max2(1, Len(seq) - n + 1), Len(seq))

SeqToSet(seq) == {seq[i] : i \in 1..Len(seq)}

\* the group key of a node: its cluster id (group_mode = "cluster") or its
\* assignee label; group labels order as the keys do ("Cluster 0" ..
\* "Cluster 9", assignee names)
GroupKey(node, group_mode) ==
    IF group_mode = "cluster" THEN node.cluster_id ELSE node.assignee

\* ordered_groups sorting the keys by label alone
OrderedGroupsByLabel(node_data, group_mode) ==
    LET idxs == 1..Len(node_data)
        \* data_by_group.keys(), in order of first appearance
        firsts == SelectSeq([i \in idxs |-> i],
                     LAMBDA i : \A j \in 1..(i - 1) :
                        GroupKey(node_data[j], group_mode) # GroupKey(node_data[i], group_mode))
        keys == [i \in 1..Len(firsts) |-> GroupKey(node_data[firsts[i]], group_mode)]
        size(k) == Cardinality({i \in idxs : GroupKey(node_data[i], group_mode) = k})
        sort_key == [i \in 1..Len(keys) |-> keys[i]]
        group_limit == IF group_mode = "cluster" THEN 6 ELSE 5
    IN Take(SortByKey(keys, sort_key), group_limit)

\* ordered_groups: the keys sorted by (-size, label), cut to group_limit
ordered_groups(node_data, group_mode) ==
    LET idxs == 1..Len(node_data)
        \* data_by_group.keys(), in order of first appearance
        firsts == SelectSeq([i \in idxs |-> i],
                     LAMBDA i : \A j \in 1..(i - 1) :
                        GroupKey(node_data[j], group_mode) # GroupKey(node_data[i], group_mode))
        keys == [i \in 1..Len(firsts) |-> GroupKey(node_data[firsts[i]], group_mode)]
        size(k) == Cardinality({i \in idxs : GroupKey(node_data[i], group_mode) = k})
        sort_key == [i \in 1..Len(keys) |-> (0 - size(keys[i])) * 1000 + keys[i]]
        group_limit == IF group_mode = "cluster" THEN 6 ELSE 5
    IN Take(SortByKey(keys, sort_key), group_limit)

PubDates(nodes) == [i \in 1..Len(nodes) |-> nodes[i].pub_date]

\* the nodes of one group, sorted by (pub_date or date.min, pub_id)
GroupNodes(node_data, group_mode, group_key) ==
    LET members == SelectSeq(node_data, LAMBDA n : GroupKey(n, group_mode) = group_key)
    IN SortByKey(members, [i \in 1..Len(members) |->
                              (members[i].pub_date + 1) * 1000 + members[i].pub_id])

\* set -> ascending sequence
RECURSIVE SetToSeqAsc(_)
SetToSeqAsc(S) ==
    IF S = {} THEN <<>> ELSE <<SetMin(S)>> \o SetToSeqAsc(S \ {SetMin(S)})

\* bucket_items without the cut to the latest 12 buckets
BucketItemsUncut(window_nodes) ==
    LET months == SetToSeqAsc({_month_floor(window_nodes[i].pub_date) :
                                  i \in 1..Len(window_nodes)})
    IN [b \in 1..Len(months) |->
          SelectSeq(window_nodes, LAMBDA n : _month_floor(n.pub_date) = months[b])]

\* bucket_items: the monthly buckets of the window nodes, oldest month
\* first, cut to the latest 12; each bucket keeps the order of window_nodes
bucket_items(window_nodes) ==
    LET months == SetToSeqAsc({_month_floor(window_nodes[i].pub_date) :
                                  i \in 1..Len(window_nodes)})
        all == [b \in 1..Len(months) |->
                   SelectSeq(window_nodes, LAMBDA n : _month_floor(n.pub_date) = months[b])]
    IN IF Len(all) > 12 THEN LastN(all, 12) ELSE all

\* Counter(...).most_common(2): the two most frequent clusters of the group,
\* ties in order of first appearance
most_common(group_nodes) ==
    LET n == Len(group_nodes)
        firsts == SelectSeq([i \in 1..n |-> i],
                     LAMBDA i : \A j \in 1..(i - 1) :
                        group_nodes[j].cluster_id # group_nodes[i].cluster_id)
        cids == [i \in 1..Len(firsts) |-> group_nodes[firsts[i]].cluster_id]
        count(c) == Cardinality({i \in 1..n : group_nodes[i].cluster_id = c})
    IN Take(SortByKey(cids, [i \in 1..Len(cids) |-> 0 - count(cids[i])]), 2)

\* _compute_bridge_inputs dividing by the size of the whole group
BridgeInputsOverGroup(group_nodes, node_data, idx_matrix, dist_matrix, momentum) ==
    LET top_clusters == most_common(group_nodes)
    IN IF Len(group_nodes) = 0 \/ Len(top_clusters) < 2
       THEN [openness |-> Scale, inter_weight |-> 0, mom_left |-> 0, mom_right |-> 0,
             bridge_nodes |-> {}]
       ELSE
       LET c1 == top_clusters[1]
           c2 == top_clusters[2]
           top == {c1, c2}
           label(i) == node_data[i].cluster_id
           members == SelectSeq(group_nodes, LAMBDA n : n.cluster_id \in top)
           \* the neighbour positions of node i that cross to the other cluster
           crossing(i) == {pos \in 1..Len(idx_matrix[i]) :
                             /\ idx_matrix[i][pos] # i
                             /\ label(idx_matrix[i][pos]) \in top
                             /\ label(idx_matrix[i][pos]) # label(i)}
           bridge_nodes == {members[m].index : m \in {m \in 1..Len(members) :
                                                        crossing(members[m].index) # {}}}
           weight_sum == SeqSum([m \in 1..Len(members) |->
                            SetSum2(crossing(members[m].index),
                                    [pos \in crossing(members[m].index) |->
                                        Scale - dist_matrix[members[m].index][pos]])])
           weight_cnt == SeqSum([m \in 1..Len(members) |->
                            Cardinality(crossing(members[m].index))])
           cluster_total == Len(group_nodes)
           mom(c) == IF c + 1 <= Len(momentum) THEN momentum[c + 1] ELSE 0
       IN [openness |-> (Cardinality(bridge_nodes) * Scale) \div Max2(1, cluster_total),
           inter_weight |-> IF weight_cnt > 0 THEN weight_sum \div weight_cnt ELSE 0,
           mom_left |-> mom(c1), mom_right |-> mom(c2),
           bridge_nodes |-> bridge_nodes]

\* _compute_bridge_inputs taking the dominant clusters of the whole population
BridgeInputsOverPopulation(group_nodes, node_data, idx_matrix, dist_matrix, momentum) ==
    LET top_clusters == most_common(node_data)
    IN IF Len(group_nodes) = 0 \/ Len(top_clusters) < 2
       THEN [openness |-> Scale, inter_weight |-> 0, mom_left |-> 0, mom_right |-> 0,
             bridge_nodes |-> {}]
       ELSE
       LET c1 == top_clusters[1]
           c2 == top_clusters[2]
           top == {c1, c2}
           label(i) == node_data[i].cluster_id
           members == SelectSeq(group_nodes, LAMBDA n : n.cluster_id \in top)
           \* the neighbour positions of node i that cross to the other cluster
           crossing(i) == {pos \in 1..Len(idx_matrix[i]) :
                             /\ idx_matrix[i][pos] # i
                             /\ label(idx_matrix[i][pos]) \in top
                             /\ label(idx_matrix[i][pos]) # label(i)}
           bridge_nodes == {members[m].index : m \in {m \in 1..Len(members) :
                                                        crossing(members[m].index) # {}}}
           weight_sum == SeqSum([m \in 1..Len(members) |->
                            SetSum2(crossing(members[m].index),
                                    [pos \in crossing(members[m].index) |->
                                        Scale - dist_matrix[members[m].index][pos]])])
           weight_cnt == SeqSum([m \in 1..Len(members) |->
                            Cardinality(crossing(members[m].index))])
           cluster_total == Len(members)
           mom(c) == IF c + 1 <= Len(momentum) THEN momentum[c + 1] ELSE 0
       IN [openness |-> (Cardinality(bridge_nodes) * Scale) \div Max2(1, cluster_total),
           inter_weight |-> IF weight_cnt > 0 THEN weight_sum \div weight_cnt ELSE 0,
           mom_left |-> mom(c1), mom_right |-> mom(c2),
           bridge_nodes |-> bridge_nodes]

\* _compute_bridge_inputs for the nodes of one group.  labels[i] is
\* node_data[i].cluster_id; idx_matrix[i] and dist_matrix[i] are the
\* neighbour rows of node i (node indices from 1)
_compute_bridge_inputs(group_nodes, node_data, idx_matrix, dist_matrix, momentum) ==
    LET top_clusters == most_common(group_nodes)
    IN IF Len(group_nodes) = 0 \/ Len(top_clusters) < 2
       THEN [openness |-> Scale, inter_weight |-> 0, mom_left |-> 0, mom_right |-> 0,
             bridge_nodes |-> {}]
       ELSE
       LET c1 == top_clusters[1]
           c2 == top_clusters[2]
           top == {c1, c2}
           label(i) == node_data[i].cluster_id
           members == SelectSeq(group_nodes, LAMBDA n : n.cluster_id \in top)
           \* the neighbour positions of node i that cross to the other cluster
           crossing(i) == {pos \in 1..Len(idx_matrix[i]) :
                             /\ idx_matrix[i][pos] # i
                             /\ label(idx_matrix[i][pos]) \in top
                             /\ label(idx_matrix[i][pos]) # label(i)}
           bridge_nodes == {members[m].index : m \in {m \in 1..Len(members) :
                                                        crossing(members[m].index) # {}}}
           weight_sum == SeqSum([m \in 1..Len(members) |->
                            SetSum2(crossing(members[m].index),
                                    [pos \in crossing(members[m].index) |->
                                        Scale - dist_matrix[members[m].index][pos]])])
           weight_cnt == SeqSum([m \in 1..Len(members) |->
                            Cardinality(crossing(members[m].index))])
           cluster_total == Len(members)
           mom(c) == IF c + 1 <= Len(momentum) THEN momentum[c + 1] ELSE 0
       IN [openness |-> (Cardinality(bridge_nodes) * Scale) \div Max2(1, cluster_total),
           inter_weight |-> IF weight_cnt > 0 THEN weight_sum \div weight_cnt ELSE 0,
           mom_left |-> mom(c1), mom_right |-> mom(c2),
           bridge_nodes |-> bridge_nodes]

\* the insufficient-history branch: four payloads built directly
InsufficientHistory ==
    LET r == SignalComputation(FALSE, 0, "Not enough history for this scope.")
        p(kind) == SignalPayload(kind, status(r.ok, r.confidence), 0, r.message, <<>>)
    IN <<p("emerging_gap"), p("bridge"), p("crowd_out"), p("focus_shift")>>

\* the side effects of _payload: for each node id, add the kind to
\* node_signals, overwrite the tooltip when conf >= the node's relevance so
\* far, and raise the relevance to conf
RECURSIVE Accumulate(_, _, _, _)
Accumulate(acc, kind, result, node_ids) ==
    IF node_ids = <<>> THEN acc
    ELSE LET nid == Head(node_ids)
             conf == Clip(result.confidence, 0, Scale)
             current_conf == IF nid \in DOMAIN acc.node_relevance
                             THEN acc.node_relevance[nid] ELSE 0
             seen == IF nid \in DOMAIN acc.node_signals THEN acc.node_signals[nid] ELSE {}
             tip == [kind |-> kind, message |-> result.message]
             next == [acc EXCEPT
                        !.node_signals = (nid :> (seen \cup {kind})) @@ @,
                        !.node_tooltips = IF conf >= current_conf THEN (nid :> tip) @@ @ ELSE @,
                        !.node_relevance = (nid :> Max2(current_conf, conf)) @@ @]
         IN Accumulate(next, kind, result, Tail(node_ids))

PubIds(nodes) == [i \in 1..Len(nodes) |-> nodes[i].pub_id]

\* the five monthly series of the buckets, the sample count and the nodes
\* of the latest bucket
GroupSeries(items) ==
    LET mean(b, field) == Mean([i \in 1..Len(items[b]) |-> items[b][i][field]])
    IN [dist_series |-> [b \in 1..Len(items) |-> mean(b, "distance")],
        share_series |-> [b \in 1..Len(items) |->
            (Cardinality({i \in 1..Len(items[b]) : items[b][i].is_focus}) * Scale)
                \div Len(items[b])],
        whitespace_series |-> [b \in 1..Len(items) |-> mean(b, "score")],
        density_series |-> [b \in 1..Len(items) |-> mean(b, "density")],
        momentum_series |-> [b \in 1..Len(items) |-> mean(b, "momentum")],
        n_samples |-> SeqSum([b \in 1..Len(items) |-> Len(items[b])]),
        latest_nodes |-> items[Len(items)]]

\* the node ids listed with each signal
focus_node_ids(latest_nodes) ==
    PubIds(Take(SortByKey(latest_nodes,
                          [i \in 1..Len(latest_nodes) |-> latest_nodes[i].distance]), 6))

emerging_node_ids(nodes, ctx) ==
    Let(SelectSeq(nodes, LAMBDA n :
            n.score * Scale >= ctx.high_ws_threshold /\ n.proximity >= 400),
        LAMBDA hits :
            PubIds(Take(IF hits # <<>> THEN hits
                        ELSE Take(SortByKey(nodes, [i \in 1..Len(nodes) |->
                                                      0 - nodes[i].score]), 5), 6)))

crowd_node_ids(latest_nodes, ctx) ==
    Let(SelectSeq(latest_nodes, LAMBDA n :
            /\ n.density * Scale >= ctx.high_density_threshold
            /\ n.score * Scale <= ctx.low_ws_threshold),
        LAMBDA hits :
            PubIds(Take(IF hits # <<>> THEN hits
                        ELSE Take(SortByKey(latest_nodes, [i \in 1..Len(latest_nodes) |->
                                 (0 - latest_nodes[i].density) * 100000
                                     + latest_nodes[i].score]), 5), 6)))

bridge_node_ids(bridge_nodes, nodes) ==
    PubIds(SelectSeq(nodes, LAMBDA n : n.index \in bridge_nodes))

\* the four _payload calls of one group, in order, and the group's payload
EmitGroup(acc, group_key, res, ids, n_buckets, openness, ctx) ==
    Let(Accumulate(Accumulate(Accumulate(Accumulate(acc,
            "emerging_gap", res.emerging, ids.emerging),
            "bridge", res.bridge, ids.bridge),
            "crowd_out", res.crowd, ids.crowd),
            "focus_shift", res.focus, ids.focus),
        LAMBDA maps :
            [maps EXCEPT !.group_payloads = Append(@,
                [assignee |-> group_key,
                 signals |-> <<_payload("emerging_gap", res.emerging, ids.emerging),
                               _payload("bridge", res.bridge, ids.bridge),
                               _payload("crowd_out", res.crowd, ids.crowd),
                               _payload("focus_shift", res.focus, ids.focus)>>,
                 group_kind |-> ctx.group_mode, n_buckets |-> n_buckets,
                 openness |-> openness])])

\* the body of the loop over ordered_groups for one group whose window is
\* (start_date, end_date) and has window nodes
AnalyseGroup(acc, group_key, nodes, window_nodes, ctx) ==
    Let(bucket_items(window_nodes), LAMBDA items :
    Let(GroupSeries(items), LAMBDA sr :
    Let(_compute_bridge_inputs(nodes, ctx.node_data, ctx.idx_matrix, ctx.dist_matrix,
                               ctx.momentum), LAMBDA bi :
    Let([focus |-> signal_focus_shift(sr.dist_series, sr.share_series, sr.n_samples),
         emerging |-> signal_emerging_gap(sr.whitespace_series, ctx.cohort_scores,
                          \* neighbor_momentum = momentum_series[-1]
                          sr.momentum_series[Len(sr.momentum_series)]),
         crowd |-> signal_crowd_out(sr.whitespace_series, sr.density_series),
         bridge |-> signal_bridge(bi.openness, bi.inter_weight, bi.mom_left,
                                  bi.mom_right)], LAMBDA res :
    Let([focus |-> focus_node_ids(sr.latest_nodes),
         emerging |-> emerging_node_ids(nodes, ctx),
         crowd |-> crowd_node_ids(sr.latest_nodes, ctx),
         bridge |-> bridge_node_ids(bi.bridge_nodes, nodes)], LAMBDA ids :
    EmitGroup(acc, group_key, res, ids, Len(items), bi.openness, ctx))))))

\* nothing emitted yet; raised is set when an exception leaves the function
EmptyMaps == [group_payloads |-> <<>>, node_signals |-> <<>>,
              node_relevance |-> <<>>, node_tooltips |-> <<>>, raised |-> FALSE]

\* one pass of the loop over ordered_groups
GroupStep(acc, group_key, ctx) ==
    Let(GroupNodes(ctx.node_data, ctx.group_mode, group_key), LAMBDA nodes :
    Let(_window_bounds(ctx.date_from, ctx.date_to, PubDates(nodes)), LAMBDA window :
    Let(SelectSeq(nodes, LAMBDA n :
            n.pub_date # NoDate /\ window[1] <= n.pub_date /\ n.pub_date <= window[2]),
        LAMBDA window_nodes :
            IF window[1] = Overflow
            THEN \* the exception leaves build_group_signals
                 [EmptyMaps EXCEPT !.raised = TRUE]
            ELSE IF window[1] = NoDate \/ window[2] = NoDate
            THEN [acc EXCEPT !.group_payloads = Append(@,
                     [assignee |-> group_key, signals |-> InsufficientHistory,
                      group_kind |-> ctx.group_mode, n_buckets |-> 0,
                      openness |-> Scale])]
            ELSE IF window_nodes = <<>> THEN acc
            ELSE AnalyseGroup(acc, group_key, nodes, window_nodes, ctx))))

\* for group_key in ordered_groups: ...
RECURSIVE GroupLoop(_, _, _)
GroupLoop(groups, acc, ctx) ==
    IF groups = <<>> \/ acc.raised THEN acc
    ELSE Let(GroupStep(acc, Head(groups), ctx),
             LAMBDA next : GroupLoop(Tail(groups), next, ctx))

\* build_group_signals(req, node_data, labels, idx_matrix, dist_matrix,
\* momentum, group_mode): the group payloads and the three node maps
build_group_signals(date_from, date_to, node_data, idx_matrix, dist_matrix, momentum, group_mode) ==
    IF node_data = <<>> THEN EmptyMaps
    ELSE
    Let([i \in 1..Len(node_data) |-> node_data[i].score], LAMBDA cohort_scores :
    Let([i \in 1..Len(node_data) |-> node_data[i].density], LAMBDA density_values :
    Let([date_from |-> date_from, date_to |-> date_to, node_data |-> node_data,
         idx_matrix |-> idx_matrix, dist_matrix |-> dist_matrix,
         momentum |-> momentum, group_mode |-> group_mode,
         cohort_scores |-> cohort_scores,
         high_ws_threshold |-> QuantileScaled(cohort_scores, 900),
         low_ws_threshold |-> QuantileScaled(cohort_scores, 400),
         high_density_threshold |-> QuantileScaled(density_values, 750)],
        LAMBDA ctx : GroupLoop(ordered_groups(node_data, group_mode), EmptyMaps, ctx))))

(***************************************************************************)
(* Groups: one call of build_group_signals on a population laid out group  *)
(* by group.  A request date is a record [day, padded]: "YYYY-MM-DD" with  *)
(* or without the zero padding of month and day.                           *)
(***************************************************************************)
MaxGroups == 2
MaxGroupSize == 4

\* a group of n nodes: dated from a start day every step days, or undated
GroupShapes ==
    {[n |-> n, step |-> st, dated |-> TRUE, early |-> FALSE] :
        n \in 1..MaxGroupSize, st \in {15, 31}}
        \cup {[n |-> n, step |-> 0, dated |-> FALSE, early |-> FALSE] : n \in 1..2}
        \* a group whose rows carry pub_date 00010615, 00010630, ...
        \cup {[n |-> n, step |-> 15, dated |-> TRUE, early |-> TRUE] : n \in 1..2}

\* a group of 13 nodes, one every 29 days
LongShape == [n |-> 13, step |-> 29, dated |-> TRUE, early |-> FALSE]

\* the groups of a population: up to MaxGroups groups, or one group followed
\* by the long one, whose dates then fall in 13 calendar months, or the
\* seven small groups
\* seven groups of one or two nodes: more groups than group_limit keeps
ManyLayout ==
    [g \in 1..7 |-> [n |-> IF g \in {2, 7} THEN 2 ELSE 1, step |-> 31,
                     dated |-> TRUE, early |-> FALSE]]

GroupLayouts ==
    SeqsOf(GroupShapes, 1, MaxGroups)
        \cup {<<sh, LongShape>> : sh \in {x \in GroupShapes : x.n <= 2}}
        \cup {ManyLayout}

GroupStart(g) == Epoch + 400 + 200 * (g - 1)

\* how the metrics of a group's nodes run over time, the knn distance, and
\* the momentum of cluster 0 and of the other clusters
Scenarios ==
    {[trend |-> "rise", knn_dist |-> 200, mom_first |-> 1000, mom_rest |-> 300],
     [trend |-> "fall", knn_dist |-> 600, mom_first |-> 100, mom_rest |-> 1000]}

\* group_mode, and in assignee mode how cluster ids fall on the nodes
GroupModes == {[group_mode |-> "cluster", clusters |-> "group"],
               [group_mode |-> "assignee", clusters |-> "same"],
               [group_mode |-> "assignee", clusters |-> "alternate"]}

GroupRequests ==
    {[date_from |-> NoReqDate, date_to |-> NoReqDate],
     [date_from |-> [day |-> Epoch + 400, padded |-> TRUE], date_to |-> NoReqDate],
     [date_from |-> [day |-> Epoch + 600, padded |-> FALSE], date_to |-> NoReqDate],
     [date_from |-> [day |-> Epoch + 400, padded |-> TRUE],
      date_to |-> [day |-> Epoch + 2000, padded |-> TRUE]],
     [date_from |-> NoReqDate, date_to |-> [day |-> Epoch + 2000, padded |-> TRUE]]}

\* the node_data of a population of groups; node indices and pub ids run
\* from 1 in the order of the groups
PopulationOf(shapes, sc, gm) ==
    LET offset(g) == SeqSum([h \in 1..(g - 1) |-> shapes[h].n])
        total == SeqSum([h \in 1..Len(shapes) |-> shapes[h].n])
        group_of(i) == CHOOSE g \in 1..Len(shapes) :
                          offset(g) < i /\ i <= offset(g) + shapes[g].n
        node(i) ==
            LET g == group_of(i)
                j == i - offset(g)
                \* the nodes of the long group all carry the same metrics
                pos == IF shapes[g] = LongShape THEN 1
                       ELSE IF sc.trend = "rise" THEN j ELSE shapes[g].n + 1 - j
                cid == IF gm.clusters = "group" THEN g - 1
                       ELSE IF gm.clusters = "same" THEN 0 ELSE i % 2
                focus == pos >= 3
                dist == Max2(0, 1100 - 200 * pos)
            IN [index |-> i, pub_id |-> i, assignee |-> g,
                pub_date |-> IF shapes[g].dated
                             THEN (IF shapes[g].early THEN EarlyDay ELSE GroupStart(g))
                                      + (j - 1) * shapes[g].step
                             ELSE NoDate,
                cluster_id |-> cid,
                score |-> IF focus THEN 0 ELSE 100 + 150 * pos,
                density |-> Max2(0, 900 - 150 * pos),
                proximity |-> Scale - dist \div 2,
                distance |-> dist,
                momentum |-> IF cid = 0 THEN sc.mom_first ELSE sc.mom_rest,
                is_focus |-> focus]
    IN [i \in 1..total |-> node(i)]

\* the knn rows of the population: each node, then the next node
KnnIdx(n) == [i \in 1..n |-> <<i, (i % n) + 1>>]
KnnDist(n, d) == [i \in 1..n |-> <<0, d>>]

MomentumTable(node_data, sc) ==
    [c \in 1..(SetMax({node_data[i].cluster_id : i \in 1..Len(node_data)}) + 1) |->
        IF c = 1 THEN sc.mom_first ELSE sc.mom_rest]

GroupsInit == grp_in = None /\ grp_out = None

BuildGroupSignals ==
    /\ grp_in = None
    /\ \E shapes \in GroupLayouts, sc \in Scenarios,
          gm \in GroupModes, req \in GroupRequests :
         LET node_data == PopulationOf(shapes, sc, gm)
             n == Len(node_data)
         IN \* get_whitespace_graph goes on with more nodes than
            \* layout_neighbors (at least 2), all of them passed by the filter
            /\ n >= 3
            /\ \A i \in 1..n : DateFilter(req.date_from, req.date_to, node_data[i].pub_date)
            /\ grp_in' = [date_from |-> req.date_from, date_to |-> req.date_to,
                          node_data |-> node_data, group_mode |-> gm.group_mode]
            /\ \E out \in {build_group_signals(
                              _parse_date_str(req.date_from), _parse_date_str(req.date_to),
                              node_data, KnnIdx(n), KnnDist(n, sc.knn_dist),
                              MomentumTable(node_data, sc), gm.group_mode)} :
                  grp_out' = out
    /\ UNCHANGED NotGrp

GroupsNext == BuildGroupSignals

GrpCalled == grp_in # None

\* the groups build_group_signals selects, and the node dates of one
GrpSelected == SeqToSet(ordered_groups(grp_in.node_data, grp_in.group_mode))
GrpDates(g) == {n.pub_date : n \in {m \in SeqToSet(grp_in.node_data) :
                                      GroupKey(m, grp_in.group_mode) = g}} \ {NoDate}
GrpPayloads(g) == {i \in 1..Len(grp_out.group_payloads) :
                     grp_out.group_payloads[i].assignee = g}

\* the group has no dated node, or its rolling window is under 60 days
GrpInsufficient(g) ==
    \/ GrpDates(g) = {}
    \/ LET w == WindowRaw(_parse_date_str(grp_in.date_from),
                          _parse_date_str(grp_in.date_to),
                          SetToSeqAsc(GrpDates(g)))
       IN w.end_date - w.start_date < 60

SIGNAL_ORDER == <<"emerging_gap", "bridge", "crowd_out", "focus_shift">>

\* the selected groups whose latest stored date lies in year 1
GrpEarly == {g \in GrpSelected : GrpDates(g) # {} /\ SetMax(GrpDates(g)) < DateMin + 365}
GrpEarlyDated == GrpEarly # {}

GrpAnalysis(g) ==
    Let(GroupNodes(grp_in.node_data, grp_in.group_mode, g), LAMBDA nodes :
    Let(_window_bounds(_parse_date_str(grp_in.date_from), _parse_date_str(grp_in.date_to),
                       PubDates(nodes)), LAMBDA window :
    Let(SelectSeq(nodes, LAMBDA n :
            n.pub_date # NoDate /\ window[1] <= n.pub_date /\ n.pub_date <= window[2]),
        LAMBDA window_nodes :
    Let(window[1] \notin {NoDate, Overflow} /\ window_nodes # <<>>, LAMBDA analysed :
    Let(IF analysed THEN bucket_items(window_nodes) ELSE <<>>, LAMBDA items :
        [analysed |-> analysed, window |-> window, window_nodes |-> window_nodes,
         months |-> {_month_floor(window_nodes[i].pub_date) : i \in 1..Len(window_nodes)},
         items |-> items,
         item_months |-> [b \in 1..Len(items) |->
                            [i \in 1..Len(items[b]) |-> _month_floor(items[b][i].pub_date)]],
         series |-> IF analysed THEN GroupSeries(items) ELSE None])))))

\* the latest 12 of a set of months
LatestTwelve(months) == {m \in months : Cardinality({q \in months : q > m}) < 12}

\* C23: for every analysed group the buckets are the calendar months of its
\* window nodes, oldest first, cut to the most recent 12; the five series
\* have one entry per kept bucket; every node of a bucket has a known date
\* inside [start, end]; and the sample count is the number of nodes in the
\* kept buckets.
C23_MonthlyBucketsLatestTwelve ==
    (GrpCalled /\ ~GrpEarlyDated) =>
        \A g \in GrpSelected :
            Let(GrpAnalysis(g), LAMBDA an : an.analysed =>
            Let(LatestTwelve(an.months), LAMBDA kept :
                /\ Len(an.items) <= 12
                /\ grp_out.group_payloads[CHOOSE i \in GrpPayloads(g) : TRUE].n_buckets
                     = Len(an.items)
                /\ \A f \in {"dist_series", "share_series", "whitespace_series",
                             "density_series", "momentum_series"} :
                      Len(an.series[f]) = Len(an.items)
                /\ UNION {SeqToSet(an.item_months[b]) : b \in 1..Len(an.items)} = kept
                /\ \A b \in 1..Len(an.items) :
                      /\ an.items[b] # <<>>
                      /\ \A i \in 1..Len(an.items[b]) :
                           /\ an.items[b][i].pub_date # NoDate
                           /\ an.window[1] <= an.items[b][i].pub_date
                           /\ an.items[b][i].pub_date <= an.window[2]
                           /\ an.item_months[b][i] = an.item_months[b][1]
                      /\ b < Len(an.items) =>
                           an.item_months[b][1] < an.item_months[b + 1][1]
                /\ an.series.n_samples =
                      Cardinality({i \in 1..Len(an.window_nodes) :
                                      _month_floor(an.window_nodes[i].pub_date) \in kept})))

\* a group whose window nodes fall in 13 calendar months, analysed over 12
\* buckets that hold 12 of its 13 nodes
C23_Witness ==
    /\ GrpCalled /\ ~GrpEarlyDated
    /\ \E g \in GrpSelected :
         Let(GrpAnalysis(g), LAMBDA an :
             /\ an.analysed
             /\ Cardinality(an.months) = 13
             /\ grp_out.group_payloads[CHOOSE i \in GrpPayloads(g) : TRUE].n_buckets = 12
             /\ an.series.n_samples = 12)

\* C26: when groups are formed per cluster, the bridge signal of every
\* group payload is not ok: status "none" and confidence 0.
C26_NoBridgeInClusterMode ==
    (GrpCalled /\ grp_in.group_mode = "cluster") =>
        \A i \in 1..Len(grp_out.group_payloads) :
            LET bridge == grp_out.group_payloads[i].signals[2]
            IN /\ bridge.type = "bridge"
               /\ bridge.status = "none"
               /\ bridge.confidence = 0
               /\ bridge.node_ids = <<>>

\* two clusters analysed as groups, the larger over three or more months
\* with a neighbour row crossing to the other cluster, and no bridge
C26_Witness ==
    /\ GrpCalled /\ grp_in.group_mode = "cluster"
    /\ Len(grp_out.group_payloads) = 2
    /\ grp_out.group_payloads[1].n_buckets >= 3
    /\ grp_out.group_payloads[1].openness = Scale
    /\ grp_out.group_payloads[1].signals[2].status = "none"

\* the keys of the population's groups, the size of one, and the groups
\* that come before it by descending size, then label
GrpKeys == {GroupKey(n, grp_in.group_mode) : n \in SeqToSet(grp_in.node_data)}
GrpSize(g) == Cardinality({i \in 1..Len(grp_in.node_data) :
                             GroupKey(grp_in.node_data[i], grp_in.group_mode) = g})
GrpAhead(g) == {h \in GrpKeys : \/ GrpSize(h) > GrpSize(g)
                                \/ GrpSize(h) = GrpSize(g) /\ h < g}
GrpLimit == IF grp_in.group_mode = "cluster" THEN 6 ELSE 5

C16_GroupFailureSkipsOnlyThatGroup ==
    GrpCalled =>
        /\ ~grp_out.raised
        /\ \A g \in GrpSelected \ GrpEarly : GrpPayloads(g) # {}

(***************************************************************************)
(* POST /graph.  An embedding is a pair of thousandths; the library calls  *)
(* (nearest neighbours, Leiden) are computed on them or drawn from their   *)
(* possible results.                                                       *)
(***************************************************************************)

\* exp(x), x and the result in thousandths: the power series to 12 terms
RECURSIVE ExpTerms(_, _, _)
ExpTerms(x, k, term) ==
    IF k > 12 THEN 0
    ELSE LET t == (term * x) \div (k * Scale) IN t + ExpTerms(x, k + 1, t)

Exp(x) == Scale + ExpTerms(x, 1, Scale)

Norm(v) == ISqrt(v[1] * v[1] + v[2] * v[2])

\* load_embeddings, cosine normalization: X / norms, a zero norm taken as 1
Normalize(v) ==
    LET n == IF Norm(v) = 0 THEN Scale ELSE Norm(v)
    IN <<(v[1] * Scale) \div n, (v[2] * Scale) \div n>>

\* _from_int_date
_from_int_date(value) == IF value = NoDate THEN NoDate ELSE DayNumber(value)

\* load_embeddings: the rows passing the WHERE clause, in the ORDER BY
\* is_focus DESC, pub_date DESC (NULL first), pub_id, cut to LIMIT
load_embeddings(db, req, canonical_ids) ==
    LET passing == SelectSeq(db, LAMBDA r :
                      /\ DateFilter(req.date_from, req.date_to, _from_int_date(r.pub_date))
                      /\ (canonical_ids # {} => r.assignee \in canonical_ids))
        by_date == SortByKey(passing, [i \in 1..Len(passing) |->
                      IF passing[i].pub_date = NoDate THEN 0 - 99999999
                      ELSE 0 - passing[i].pub_date])
        by_focus == SortByKey(by_date, [i \in 1..Len(by_date) |->
                      IF by_date[i].is_focus THEN 0 ELSE 1])
    IN Take(by_focus, req.limit)

\* the cosine distance of two normalized rows
CosineDistance(u, v) == Scale - (u[1] * v[1] + u[2] * v[2]) \div Scale

\* build_knn: per row the k nearest rows, itself among them, nearest first;
\* rows at equal distance come in index order or in reverse index order
build_knn(X, k, tie) ==
    LET n == Len(X)
        row(i) ==
            LET keys == [j \in 1..n |-> CosineDistance(X[i], X[j]) * 100
                                          + (IF tie = "asc" THEN j ELSE n - j)]
            IN Take(SortByKey([j \in 1..n |-> j], keys), k)
    IN [idx |-> [i \in 1..n |-> row(i)],
        dist |-> [i \in 1..n |-> [c \in 1..Len(row(i)) |->
                                    CosineDistance(X[i], X[row(i)[c]])]]]

\* local_density: (1.0 - dist).mean(axis=1), over every neighbour column
local_density(dist) ==
    [i \in 1..Len(dist) |-> Mean([c \in 1..Len(dist[i]) |-> Scale - dist[i][c]])]

\* cluster_labels, the loop filling edges and weights: row by row and
\* neighbour by neighbour, the pair (i, j) is appended when i < j
RECURSIVE LeidenEdgesFrom(_, _, _)
LeidenEdgesFrom(dist, idx, i) ==
    IF i > Len(idx) THEN <<>>
    ELSE LET cols == SelectSeq([jpos \in 1..Len(idx[i]) |-> jpos],
                               LAMBDA jpos : idx[i][jpos] # i /\ i < idx[i][jpos])
         IN [c \in 1..Len(cols) |->
               [i |-> i, j |-> idx[i][cols[c]], weight |-> Scale - dist[i][cols[c]]]]
            \o LeidenEdgesFrom(dist, idx, i + 1)

\* cluster_labels: the edges and weights given to the graph g
LeidenEdges(dist, idx) == LeidenEdgesFrom(dist, idx, 1)

\* cluster_labels: a partition find_partition can return, either one
\* cluster or one cluster per direction, numbered from 0
cluster_labels(X, partition) ==
    LET firsts == SelectSeq([i \in 1..Len(X) |-> i],
                            LAMBDA i : \A j \in 1..(i - 1) : X[j] # X[i])
    IN [i \in 1..Len(X) |->
          IF partition = "one" THEN 0
          ELSE (CHOOSE c \in 1..Len(firsts) : X[firsts[c]] = X[i]) - 1]

\* compute_whitespace_metrics without the zeroing of the focus rows
MetricsFocusKept(X, labels, dens, focus_mask, alpha, beta, momentum) ==
    LET n == Len(X)
        any == \E i \in 1..n : focus_mask[i]
        rows == IF any THEN {i \in 1..n : focus_mask[i]} ELSE 1..n
        F == <<SetSum2(rows, [i \in rows |-> X[i][1]]) \div Cardinality(rows),
               SetSum2(rows, [i \in rows |-> X[i][2]]) \div Cardinality(rows)>>
        a == IF any THEN alpha ELSE alpha \div 2
        d == [i \in 1..n |-> Norm(<<X[i][1] - F[1], X[i][2] - F[2]>>)]
        proximity == [i \in 1..n |-> Exp((0 - a * d[i]) \div Scale)]
        dmin == SetMin(SeqToSet(dens))
        dmax == SetMax(SeqToSet(dens))
        sparse == [i \in 1..n |->
                     Scale - (IF dmax = dmin THEN 0
                              ELSE ((dens[i] - dmin) * Scale) \div (dmax - dmin))]
        mom == [i \in 1..n |-> momentum[Clip(labels[i] + 1, 1, Len(momentum))]]
        score == [i \in 1..n |->
                    (((proximity[i] * sparse[i]) \div Scale)
                        * (Scale + (beta * mom[i]) \div Scale)) \div Scale]
    IN [score |-> score, proximity |-> proximity, distance |-> d]

\* compute_whitespace_metrics
compute_whitespace_metrics(X, labels, dens, focus_mask, alpha, beta, momentum) ==
    LET n == Len(X)
        any == \E i \in 1..n : focus_mask[i]
        rows == IF any THEN {i \in 1..n : focus_mask[i]} ELSE 1..n
        F == <<SetSum2(rows, [i \in rows |-> X[i][1]]) \div Cardinality(rows),
               SetSum2(rows, [i \in rows |-> X[i][2]]) \div Cardinality(rows)>>
        a == IF any THEN alpha ELSE alpha \div 2
        d == [i \in 1..n |-> Norm(<<X[i][1] - F[1], X[i][2] - F[2]>>)]
        proximity == [i \in 1..n |-> Exp((0 - a * d[i]) \div Scale)]
        dmin == SetMin(SeqToSet(dens))
        dmax == SetMax(SeqToSet(dens))
        sparse == [i \in 1..n |->
                     Scale - (IF dmax = dmin THEN 0
                              ELSE ((dens[i] - dmin) * Scale) \div (dmax - dmin))]
        mom == [i \in 1..n |-> momentum[Clip(labels[i] + 1, 1, Len(momentum))]]
        score == [i \in 1..n |->
                    (((proximity[i] * sparse[i]) \div Scale)
                        * (Scale + (beta * mom[i]) \div Scale)) \div Scale]
    IN [score |-> [i \in 1..n |-> IF focus_mask[i] THEN 0 ELSE score[i]],
        proximity |-> proximity, distance |-> d]

\* _build_node_data
_build_node_data(meta, labels, scores, dens, proximity, distance, momentum) ==
    [i \in 1..Len(meta) |->
        [index |-> i, pub_id |-> meta[i].pub_id, assignee |-> meta[i].assignee,
         pub_date |-> meta[i].pub_date, cluster_id |-> labels[i],
         score |-> scores[i], density |-> dens[i], proximity |-> proximity[i],
         distance |-> distance[i],
         momentum |-> IF labels[i] < Len(momentum) THEN momentum[labels[i] + 1] ELSE 0,
         is_focus |-> meta[i].is_focus]]

\* _match_canonical_assignees: the canonical assignees a query matches
\* above the similarity threshold
_match_canonical_assignees(assignee_query) ==
    IF assignee_query = <<"A", "c", "m", "e">> THEN {1} ELSE {}

HTTPException(status_code, detail) ==
    [resp |-> [status_code |-> status_code, detail |-> detail]]

\* the response nodes: per loaded row its id, cluster, signals, relevance,
\* tooltip, date, score and density
GraphNodes(meta, labels, node_data, signals) ==
    [i \in 1..Len(meta) |->
        LET node_id == meta[i].pub_id
            rel0 == IF node_id \in DOMAIN signals.node_relevance
                    THEN signals.node_relevance[node_id] ELSE 0
            relevance == IF rel0 <= 0 THEN 150 ELSE rel0
        IN [id |-> node_id, cluster_id |-> labels[i],
            signals |-> IF node_id \in DOMAIN signals.node_signals
                        THEN signals.node_signals[node_id] ELSE {},
            relevance |-> Clip(relevance, 50, Scale),
            tooltip |-> IF node_id \in DOMAIN signals.node_tooltips
                        THEN signals.node_tooltips[node_id] ELSE None,
            pub_date |-> node_data[i].pub_date,
            whitespace_score |-> node_data[i].score,
            local_density |-> node_data[i].density]]

RECURSIVE Flatten(_)
Flatten(seqs) == IF seqs = <<>> THEN <<>> ELSE Head(seqs) \o Flatten(Tail(seqs))

\* the response edges: per row, in order, its neighbour columns 1..10
GraphEdges(pub_ids, idx, dist) ==
    Flatten([i \in 1..Len(pub_ids) |->
               [c \in 1..(Min2(Len(idx[i]), 11) - 1) |->
                  [source |-> pub_ids[i], target |-> pub_ids[idx[i][c + 1]],
                   weight |-> Scale - dist[i][c + 1]]]])

\* the payload the handler substitutes when no group produced one
FallbackPayloads(node_data, group_mode) ==
    <<[assignee |-> IF group_mode = "assignee" THEN node_data[1].assignee
                    ELSE node_data[1].cluster_id,
       signals |-> [k \in 1..4 |-> SignalPayload(SIGNAL_ORDER[k], "none", 0,
                                      "No signal detected for this scope.", <<>>)],
       group_kind |-> group_mode, n_buckets |-> 0, openness |-> Scale]>>

\* the HTTP errors without the layout_neighbors guard
RejectionNoLayoutGuard(req, matched, loaded) ==
    LET violations == _validate_graph_params(req)
        point_count == Len(loaded)
    IN IF violations # <<>> THEN HTTPException(400, violations)
       ELSE IF req.search_mode = "assignee" /\ matched = {}
       THEN HTTPException(404, <<"No canonical assignee matches found">>)
       ELSE IF loaded = <<>>
       THEN HTTPException(400, <<"No embeddings match the filters.">>)
       ELSE IF point_count < 2
       THEN HTTPException(400, <<"Not enough embeddings">>)
       ELSE IF req.neighbors >= point_count
       THEN HTTPException(400, <<"neighbors must be less than the number of embeddings">>)
       ELSE None

\* the HTTP error get_whitespace_graph raises before it builds the graph,
\* for an authenticated user with an active subscription; None when it goes on
GraphRejection(req, matched, loaded) ==
    LET violations == _validate_graph_params(req)
        point_count == Len(loaded)
    IN IF violations # <<>> THEN HTTPException(400, violations)
       ELSE IF req.search_mode = "assignee" /\ matched = {}
       THEN HTTPException(404, <<"No canonical assignee matches found">>)
       ELSE IF loaded = <<>>
       THEN HTTPException(400, <<"No embeddings match the filters.">>)
       ELSE IF point_count < 2
       THEN HTTPException(400, <<"Not enough embeddings">>)
       ELSE IF req.neighbors >= point_count
       THEN HTTPException(400, <<"neighbors must be less than the number of embeddings">>)
       ELSE IF req.layout_neighbors >= point_count
       THEN HTTPException(400,
                <<"layout_neighbors must be less than the number of embeddings">>)
       ELSE None

\* EmbeddingMeta of the loaded rows
MetaOf(loaded) ==
    [i \in 1..Len(loaded) |->
        [pub_id |-> loaded[i].pub_id, is_focus |-> loaded[i].is_focus,
         pub_date |-> _from_int_date(loaded[i].pub_date),
         assignee |-> loaded[i].assignee]]

\* _persist_sync: the rows it copies into tmp_edges and tmp_updates and
\* inserts from there, for the user and the model of the task; now is NOW()
PersistedEdges(task) ==
    LET pairs == {<<i, c>> \in (1..Len(task.pub_ids)) \X (1..Len(task.idx[1])) :
                    task.idx[i][c] # i}
    IN {[user_id |-> task.user_id,
         src |-> task.pub_ids[pc[1]], dst |-> task.pub_ids[task.idx[pc[1]][pc[2]]],
         w |-> Scale - task.dist[pc[1]][pc[2]]] : pc \in pairs}

PersistedRows(task, now) ==
    {[user_id |-> task.user_id, pub_id |-> task.pub_ids[i], model |-> task.model,
      cluster_id |-> task.labels[i], local_density |-> task.dens[i],
      whitespace_score |-> task.scores[i], updated_at |-> now] :
        i \in 1..Len(task.pub_ids)}

\* the edge upsert on the key knn_edge had before user_id joined it
UpsertEdgesBySrcDst(table, rows) ==
    {r \in table : ~\E n \in rows : r.src = n.src /\ r.dst = n.dst} \cup rows

\* INSERT INTO knn_edge ... ON CONFLICT (user_id, src, dst) DO UPDATE
UpsertEdges(table, rows) ==
    {r \in table : ~\E n \in rows :
        r.user_id = n.user_id /\ r.src = n.src /\ r.dst = n.dst} \cup rows

\* the row upsert with ON CONFLICT DO NOTHING
UpsertRowsKeepStored(table, rows) ==
    table \cup {n \in rows : ~\E r \in table :
        r.user_id = n.user_id /\ r.pub_id = n.pub_id /\ r.model = n.model}

\* INSERT INTO user_whitespace_analysis ... ON CONFLICT (user_id, pub_id,
\* model) DO UPDATE
UpsertRows(table, rows) ==
    {r \in table : ~\E n \in rows :
        r.user_id = n.user_id /\ r.pub_id = n.pub_id /\ r.model = n.model} \cup rows

MaxGraphNodes == 4

\* the patent rows a database holds: stored embedding, stored pub_date
\* (YYYYMMDD or NULL), assignee, and whether the row matches the focus
\* expression of the request
PatentKinds ==
    <<[embedding |-> <<2000, 0>>, pub_date |-> 20230315, assignee |-> 1, is_focus |-> TRUE],
      [embedding |-> <<600, 800>>, pub_date |-> 20230201, assignee |-> 1, is_focus |-> FALSE],
      [embedding |-> <<0, 1000>>, pub_date |-> 20221201, assignee |-> 2, is_focus |-> FALSE],
      [embedding |-> <<0, 1000>>, pub_date |-> NoDate, assignee |-> 2, is_focus |-> TRUE],
      [embedding |-> <<2000, 0>>, pub_date |-> 20220601, assignee |-> 1, is_focus |-> FALSE]>>

\* databases of 1..MaxGraphNodes rows, pub ids 1, 2, ... in the order of the kinds
Databases ==
    {[i \in 1..Len(ks) |-> [pub_id |-> i] @@ PatentKinds[ks[i]]] :
        ks \in {k \in SeqsOf(DOMAIN PatentKinds, 1, MaxGraphNodes) :
                  \A i \in 1..(Len(k) - 1) : k[i] <= k[i + 1]}}

GraphRequests ==
    {[limit |-> MAX_GRAPH_LIMIT, neighbors |-> nl[1], layout_neighbors |-> nl[2],
      search_mode |-> sq[1], assignee_query |-> sq[2],
      alpha |-> al, beta |-> be, date_from |-> df, date_to |-> NoReqDate] :
        nl \in {<<1, 2>>, <<2, 2>>, <<3, 2>>, <<2, 3>>},
        sq \in {<<"keywords", NoneStr>>, <<"assignee", NoneStr>>,
                <<"assignee", <<"A", "c", "m", "e">>>>, <<"assignee", <<"Z">>>>},
        al \in {0 - 500, 800}, be \in {0 - 2000, 500},
        df \in {NoReqDate, [day |-> DayNumber(20220101), padded |-> TRUE],
                [day |-> DayNumber(20230101), padded |-> FALSE]}}

GraphInit ==
    /\ gr_req = None /\ gr_db = <<>> /\ gr_resp = None /\ gr_run = None
    /\ gr_task = None /\ gr_rows = {} /\ gr_edges = {}

\* get_whitespace_graph: step by step as the handler computes
GetWhitespaceGraph ==
    /\ gr_req = None
    /\ \E req \in GraphRequests, db \in Databases, tie \in {"asc", "desc"},
          partition \in {"one", "direction"} :
       \E group_mode \in {IF req.search_mode = "assignee" THEN "cluster" ELSE "assignee"},
          matched \in {IF req.search_mode = "assignee"
                       THEN _match_canonical_assignees(req.assignee_query) ELSE {}} :
       \E loaded \in {load_embeddings(db, req, matched)} :
       \E rejection \in {GraphRejection(req, matched, loaded)} :
         /\ gr_req' = req
         /\ gr_db' = db
         /\ \/ /\ rejection # None
               /\ gr_resp' = rejection.resp
               /\ gr_run' = None
               /\ gr_task' = None
            \/ /\ rejection = None
               /\ \E meta \in {MetaOf(loaded)},
                     X \in {[i \in 1..Len(loaded) |-> Normalize(loaded[i].embedding)]} :
                  \E focus_mask \in {[i \in 1..Len(meta) |-> meta[i].is_focus]},
                     pub_ids \in {[i \in 1..Len(meta) |-> meta[i].pub_id]},
                     knn \in {build_knn(X, req.neighbors, tie)},
                     labels \in {cluster_labels(X, partition)} :
                  \E dens \in {local_density(knn.dist)},
                     mom \in {neighbor_momentum([i \in 1..Len(loaded) |->
                                [pub_date |-> loaded[i].pub_date,
                                 cluster_id |-> labels[i]]])} :
                  \E metrics \in {compute_whitespace_metrics(X, labels, dens, focus_mask,
                                                             req.alpha, req.beta, mom)} :
                  \E node_data \in {_build_node_data(meta, labels, metrics.score, dens,
                                       metrics.proximity, metrics.distance, mom)} :
                  \E signals \in {build_group_signals(_parse_date_str(req.date_from),
                                     _parse_date_str(req.date_to), node_data,
                                     knn.idx, knn.dist, mom, group_mode)} :
                    /\ gr_resp' =
                         IF signals.raised
                         THEN HTTPException(500, <<"Internal Server Error">>).resp
                         ELSE
                         [status_code |-> 200,
                          nodes |-> GraphNodes(meta, labels, node_data, signals),
                          edges |-> GraphEdges(pub_ids, knn.idx, knn.dist),
                          signals |-> IF signals.group_payloads = <<>>
                                      THEN FallbackPayloads(node_data, group_mode)
                                      ELSE signals.group_payloads]
                    /\ gr_run' = [meta |-> meta, labels |-> labels, dens |-> dens,
                                  momentum |-> mom, scores |-> metrics.score,
                                  node_data |-> node_data,
                                  \* the call build_knn(X, req.neighbors)
                                  build_knn |-> [n |-> Len(X), k |-> req.neighbors],
                                  idx |-> knn.idx, dist |-> knn.dist,
                                  \* the graph cluster_labels hands to find_partition
                                  edges |-> LeidenEdges(knn.dist, knn.idx)]
                    \* background_tasks.add_task(_persist_background, ...)
                    /\ gr_task' = IF signals.raised THEN None ELSE
                                  [state |-> "added", user_id |-> "u1",
                                   model |-> "text-embedding-3-small|ta",
                                   pub_ids |-> pub_ids,
                                   dist |-> knn.dist, idx |-> knn.idx, labels |-> labels,
                                   dens |-> dens, scores |-> metrics.score]
    /\ UNCHANGED <<gr_rows, gr_edges>>
    /\ UNCHANGED NotGr

\* _persist_background runs after the response and commits
PersistBackground ==
    /\ gr_task # None /\ gr_task.state = "added"
    /\ gr_edges' = UpsertEdges(gr_edges, PersistedEdges(gr_task))
    /\ gr_rows' = UpsertRows(gr_rows, PersistedRows(gr_task, 1))
    /\ gr_task' = [gr_task EXCEPT !.state = "committed"]
    /\ UNCHANGED <<gr_req, gr_db, gr_resp, gr_run>>
    /\ UNCHANGED NotGr

\* _persist_background letting the exception reach the caller as a 500
PersistFailsSurfaced ==
    /\ gr_task # None /\ gr_task.state = "added"
    /\ gr_task' = [gr_task EXCEPT !.state = "failed"]
    /\ gr_resp' = HTTPException(500, <<"Failed to persist whitespace metrics">>).resp
    /\ UNCHANGED <<gr_req, gr_db, gr_run, gr_rows, gr_edges>>
    /\ UNCHANGED NotGr

\* _persist_background fails (no connection, a failing statement): the
\* exception is logged and nothing is committed
PersistFails ==
    /\ gr_task # None /\ gr_task.state = "added"
    /\ gr_task' = [gr_task EXCEPT !.state = "failed"]
    /\ UNCHANGED <<gr_req, gr_db, gr_resp, gr_run, gr_rows, gr_edges>>
    /\ UNCHANGED NotGr

GraphNext == GetWhitespaceGraph \/ PersistBackground \/ PersistFails

GraphBuilt == gr_run # None

\* the rows of user_whitespace_analysis for one publication
GrRowsOf(pub_id) == {r \in gr_rows : r.pub_id = pub_id}

\* C5: after compute_whitespace_metrics the score of every node flagged
\* is_focus is 0, whatever alpha, beta, the densities and the momentum, and
\* that 0 is the score of its NodeDatum, of its response node, of the row
\* handed to the background task and of the row the task commits.
C5_FocusScoreZero ==
    GraphBuilt =>
        \A i \in 1..Len(gr_run.meta) :
            gr_run.meta[i].is_focus =>
                /\ gr_run.scores[i] = 0
                /\ gr_run.node_data[i].score = 0
                /\ gr_resp.nodes[i].id = gr_run.meta[i].pub_id
                /\ gr_resp.nodes[i].whitespace_score = 0
                /\ gr_task.pub_ids[i] = gr_run.meta[i].pub_id
                /\ gr_task.scores[i] = 0
                /\ gr_task.state = "committed" =>
                      /\ GrRowsOf(gr_run.meta[i].pub_id) # {}
                      /\ \A r \in GrRowsOf(gr_run.meta[i].pub_id) : r.whitespace_score = 0

\* a committed graph with a focus node that is not the densest, next to a
\* node that is not focus and scores above 0
C5_Witness ==
    /\ GraphBuilt
    /\ gr_task.state = "committed"
    /\ \E i \in 1..Len(gr_run.meta), j \in 1..Len(gr_run.meta) :
         /\ gr_run.meta[i].is_focus
         /\ gr_run.dens[i] < SetMax(SeqToSet(gr_run.dens))
         /\ \E r \in gr_rows : r.pub_id = gr_run.meta[i].pub_id /\ r.whitespace_score = 0
         /\ ~gr_run.meta[j].is_focus
         /\ gr_resp.nodes[j].whitespace_score > 0

\* the rows load_embeddings returned to the request in gr_req
GrLoaded ==
    load_embeddings(gr_db, gr_req,
                    IF gr_req.search_mode = "assignee"
                    THEN _match_canonical_assignees(gr_req.assignee_query) ELSE {})

\* the request in gr_req got as far as load_embeddings
GrReachedLoad ==
    /\ gr_req # None
    /\ _validate_graph_params(gr_req) = <<>>
    /\ gr_req.search_mode = "assignee" =>
           _match_canonical_assignees(gr_req.assignee_query) # {}

\* C11: get_whitespace_graph answers 400 and never calls build_knn when the
\* loaded population has fewer than 2 items, when neighbors >= population
\* size or when layout_neighbors >= population size; every call of
\* build_knn has n >= 2 and 1 <= k < n.
C11_KnnOnlyOnLargeEnoughPopulation ==
    /\ GrReachedLoad =>
         LET point_count == Len(GrLoaded)
         IN (\/ point_count < 2
             \/ gr_req.neighbors >= point_count
             \/ gr_req.layout_neighbors >= point_count)
                => /\ gr_resp.status_code = 400
                   /\ gr_run = None
                   /\ gr_task = None
    /\ GraphBuilt =>
         /\ gr_run.build_knn.n >= 2
         /\ 1 <= gr_run.build_knn.k
         /\ gr_run.build_knn.k < gr_run.build_knn.n

\* a request rejected by the layout_neighbors guard alone: three rows
\* loaded, neighbors 2, layout_neighbors 3
C11_Witness ==
    /\ GrReachedLoad
    /\ Len(GrLoaded) = 3
    /\ gr_req.neighbors = 2
    /\ gr_req.layout_neighbors = 3
    /\ gr_resp.status_code = 400
    /\ gr_run = None

\* C12: once the background task is scheduled the response is fixed: the
\* task, committing or failing, never changes the response or the analysis
\* it was computed from, a failing task is dropped with nothing written,
\* and the response of a request whose task failed is the 200 analysis.
C12_PersistenceNeverAffectsResponse ==
    /\ [][(gr_task # None /\ gr_task.state = "added") =>
             /\ gr_resp' = gr_resp
             /\ gr_run' = gr_run
             /\ gr_task'.state = "failed" =>
                   gr_rows' = gr_rows /\ gr_edges' = gr_edges]_vars
    /\ []((gr_task # None /\ gr_task.state = "failed") =>
             /\ gr_resp.status_code = 200
             /\ Len(gr_resp.nodes) = Len(gr_task.pub_ids))

\* a request answered with its analysis whose background task failed
C12_Witness ==
    /\ GraphBuilt
    /\ gr_task.state = "failed"
    /\ gr_resp.status_code = 200
    /\ gr_resp.nodes # <<>>
    /\ gr_rows = {} /\ gr_edges = {}

(***************************************************************************)
(* Background persistence of several requests.  Each task runs            *)
(* _persist_sync in a transaction of its own: the knn_edge upsert, the     *)
(* user_whitespace_analysis upsert, the commit.  A row a transaction has   *)
(* written stays locked until it ends, so a second writer of the same key  *)
(* waits; what a transaction wrote becomes the stored row at its commit.   *)
(***************************************************************************)
MaxPersistRuns == 2

Users == {"u1", "u2"}

\* the arguments get_whitespace_graph hands to add_task for a population
\* of three or more rows
PersistArgs(pub_ids, X, k, labels, scores, model) ==
    Let(build_knn(X, k, "asc"), LAMBDA knn :
        [pub_ids |-> pub_ids, dist |-> knn.dist, idx |-> knn.idx, labels |-> labels,
         dens |-> local_density(knn.dist), scores |-> scores, model |-> model])

PersistInputs ==
    {PersistArgs(<<1, 2, 3>>, <<<<1000, 0>>, <<600, 800>>, <<0, 1000>>>>, 2,
                 <<0, 0, 1>>, <<0, 300, 700>>, "text-embedding-3-small|ta"),
     PersistArgs(<<1, 2, 3>>, <<<<1000, 0>>, <<800, 600>>, <<0, 1000>>>>, 2,
                 <<0, 1, 1>>, <<0, 500, 200>>, "text-embedding-3-small|ta"),
     PersistArgs(<<2, 3, 4>>, <<<<600, 800>>, <<0, 1000>>, <<1000, 0>>>>, 1,
                 <<0, 0, 1>>, <<400, 0, 100>>, "text-embedding-3-large|ta")}

PersistInit == ps_tasks = <<>> /\ ps_clock = 1 /\ ps_log = <<>>

\* the tasks inside a transaction other than task t
InFlight(t, states) ==
    {o \in DOMAIN ps_tasks : o # t /\ ps_tasks[o].state \in states}

EdgeKeys(task) == {<<r.user_id, r.src, r.dst>> : r \in PersistedEdges(task)}
RowKeys(task) == {<<r.user_id, r.pub_id, r.model>> : r \in PersistedRows(task, 0)}

\* background_tasks.add_task(_persist_background, ...) of a request of one user
AddTask ==
    /\ Len(ps_tasks) < MaxPersistRuns
    /\ \E u \in Users, args \in PersistInputs :
         ps_tasks' = Append(ps_tasks, [user_id |-> u, state |-> "added", now |-> 0,
                                      failed_at |-> "none"] @@ args)
    /\ UNCHANGED <<ps_clock, ps_log, gr_rows, gr_edges>>
    /\ UNCHANGED NotPs

\* PersistSyncEdges on a connection in autocommit mode: the upsert into
\* knn_edge is stored as the statement ends
PersistSyncEdgesAutocommit ==
    /\ \E t \in DOMAIN ps_tasks :
         /\ ps_tasks[t].state = "added"
         /\ \A o \in InFlight(t, {"edges", "rows"}) :
               EdgeKeys(ps_tasks[o]) \cap EdgeKeys(ps_tasks[t]) = {}
         /\ ps_tasks' = [ps_tasks EXCEPT ![t].state = "edges", ![t].now = ps_clock]
         /\ ps_clock' = ps_clock + 1
         /\ gr_edges' = UpsertEdges(gr_edges, PersistedEdges(ps_tasks[t]))
    /\ UNCHANGED <<ps_log, gr_rows>>
    /\ UNCHANGED NotPs

\* _persist_sync, first half: tmp_edges and the upsert into knn_edge, once
\* no other transaction holds one of its keys
PersistSyncEdges ==
    /\ \E t \in DOMAIN ps_tasks :
         /\ ps_tasks[t].state = "added"
         /\ \A o \in InFlight(t, {"edges", "rows"}) :
               EdgeKeys(ps_tasks[o]) \cap EdgeKeys(ps_tasks[t]) = {}
         /\ ps_tasks' = [ps_tasks EXCEPT ![t].state = "edges", ![t].now = ps_clock]
         /\ ps_clock' = ps_clock + 1
    /\ UNCHANGED <<ps_log, gr_rows, gr_edges>>
    /\ UNCHANGED NotPs

\* _persist_sync, second half: tmp_updates and the upsert into
\* user_whitespace_analysis
PersistSyncRows ==
    /\ \E t \in DOMAIN ps_tasks :
         /\ ps_tasks[t].state = "edges"
         /\ \A o \in InFlight(t, {"rows"}) :
               RowKeys(ps_tasks[o]) \cap RowKeys(ps_tasks[t]) = {}
         /\ ps_tasks' = [ps_tasks EXCEPT ![t].state = "rows"]
    /\ UNCHANGED <<ps_clock, ps_log, gr_rows, gr_edges>>
    /\ UNCHANGED NotPs

\* conn.commit()
PersistCommit ==
    /\ \E t \in DOMAIN ps_tasks :
         /\ ps_tasks[t].state = "rows"
         /\ gr_edges' = UpsertEdges(gr_edges, PersistedEdges(ps_tasks[t]))
         /\ gr_rows' = UpsertRows(gr_rows, PersistedRows(ps_tasks[t], ps_tasks[t].now))
         /\ ps_tasks' = [ps_tasks EXCEPT ![t].state = "committed"]
         /\ ps_log' = Append(ps_log, t)
    /\ UNCHANGED ps_clock
    /\ UNCHANGED NotPs

\* an exception anywhere in _persist_background (no connection, a failing
\* statement, a deadlock, a failing commit): the transaction is rolled back
\* as pool.connection() exits, the exception logged; failed_at keeps the
\* step the run had reached
PersistRollback ==
    /\ \E t \in DOMAIN ps_tasks :
         /\ ps_tasks[t].state \in {"added", "edges", "rows"}
         /\ ps_tasks' = [ps_tasks EXCEPT ![t].state = "failed",
                                         ![t].failed_at = ps_tasks[t].state]
    /\ UNCHANGED <<ps_clock, ps_log, gr_rows, gr_edges>>
    /\ UNCHANGED NotPs

PersistNext ==
    AddTask \/ PersistSyncEdges \/ PersistSyncRows \/ PersistCommit \/ PersistRollback

\* a stored row without its update timestamp
Untimed(rows) ==
    {[user_id |-> r.user_id, pub_id |-> r.pub_id, model |-> r.model,
      cluster_id |-> r.cluster_id, local_density |-> r.local_density,
      whitespace_score |-> r.whitespace_score] : r \in rows}

EdgesOfUser(table, u) == {r \in table : r.user_id = u}
RowsOfUser(table, u) == Untimed({r \in table : r.user_id = u})

\* the tables after the committed tasks of user u alone, run in their order
RECURSIVE RunAlone(_, _, _)
RunAlone(log, u, tables) ==
    IF log = <<>> THEN tables
    ELSE IF ps_tasks[Head(log)].user_id # u THEN RunAlone(Tail(log), u, tables)
    ELSE RunAlone(Tail(log), u,
            [edges |-> UpsertEdges(tables.edges, PersistedEdges(ps_tasks[Head(log)])),
             rows |-> UpsertRows(tables.rows,
                         PersistedRows(ps_tasks[Head(log)], ps_tasks[Head(log)].now))])

\* task t commits in this step
Commits(t) ==
    /\ t \in DOMAIN ps_tasks
    /\ ps_tasks[t].state # "committed"
    /\ ps_tasks'[t].state = "committed"

\* C13: a persistence run changes rows of knn_edge and of
\* user_whitespace_analysis only under the user_id of its task, and under
\* every interleaving of the runs each user's stored rows are the rows that
\* user's committed runs produce on empty tables with no other user present.
C13_WritesScopedPerUser ==
    /\ [][\A u \in Users :
            (\A t \in DOMAIN ps_tasks : Commits(t) => ps_tasks[t].user_id # u)
               => /\ EdgesOfUser(gr_edges', u) = EdgesOfUser(gr_edges, u)
                  /\ {r \in gr_rows' : r.user_id = u} = {r \in gr_rows : r.user_id = u}]_vars
    /\ [](\A u \in Users :
            LET alone == RunAlone(ps_log, u, [edges |-> {}, rows |-> {}])
            IN /\ EdgesOfUser(gr_edges, u) = alone.edges
               /\ RowsOfUser(gr_rows, u) = Untimed(alone.rows))

\* two users have committed runs over the same publications with different
\* weights and scores, the one that committed second having started first
C13_Witness ==
    /\ Len(ps_log) = 2
    /\ ps_tasks[ps_log[1]].user_id # ps_tasks[ps_log[2]].user_id
    /\ ps_tasks[ps_log[1]].pub_ids = ps_tasks[ps_log[2]].pub_ids
    /\ ps_tasks[ps_log[1]].scores # ps_tasks[ps_log[2]].scores
    /\ ps_tasks[ps_log[1]].dist # ps_tasks[ps_log[2]].dist
    /\ ps_tasks[ps_log[2]].now < ps_tasks[ps_log[1]].now
    /\ \A u \in Users : EdgesOfUser(gr_edges, u) # {} /\ RowsOfUser(gr_rows, u) # {}

\* the tasks that have committed, and the rows they wrote
Committed == {t \in DOMAIN ps_tasks : ps_tasks[t].state = "committed"}
EdgesWritten(T) == UNION {PersistedEdges(ps_tasks[t]) : t \in T}
RowsWritten(T) == UNION {Untimed(PersistedRows(ps_tasks[t], 0)) : t \in T}

\* C30: a persistence run is all-or-nothing.  The tables change only in the
\* step in which a run commits, once per run, and then hold every edge and
\* every node score of that run; a run that fails at any step leaves both
\* tables as they were, so the tables hold only rows of committed runs and
\* none at all while no run has committed.
C30_PersistAllOrNothing ==
    /\ [][/\ (gr_edges' # gr_edges \/ gr_rows' # gr_rows)
                => \E t \in DOMAIN ps_tasks : Commits(t)
          /\ \A t \in DOMAIN ps_tasks :
               /\ Commits(t) =>
                     /\ ps_tasks[t].state = "rows"
                     /\ PersistedEdges(ps_tasks[t]) \subseteq gr_edges'
                     /\ Untimed(PersistedRows(ps_tasks[t], 0)) \subseteq Untimed(gr_rows')
               /\ ps_tasks[t].state \in {"committed", "failed"} =>
                     ps_tasks'[t] = ps_tasks[t]
               /\ (ps_tasks[t].state # "failed" /\ ps_tasks'[t].state = "failed") =>
                     gr_edges' = gr_edges /\ gr_rows' = gr_rows]_vars
    /\ [](/\ gr_edges \subseteq EdgesWritten(Committed)
          /\ (\A r \in gr_rows : \E t \in Committed :
                 /\ r.user_id = ps_tasks[t].user_id
                 /\ r.model = ps_tasks[t].model
                 /\ r.pub_id \in SeqToSet(ps_tasks[t].pub_ids))
          /\ Committed = {} => gr_edges = {} /\ gr_rows = {})

\* a run that failed after both upserts, with no run committed: both
\* tables are empty
C30_Witness ==
    /\ \E t \in DOMAIN ps_tasks :
         ps_tasks[t].state = "failed" /\ ps_tasks[t].failed_at = "rows"
    /\ Committed = {}
    /\ gr_edges = {} /\ gr_rows = {}

\* the arguments of a task, without its user, state and start time
ArgsOf(task) ==
    [pub_ids |-> task.pub_ids, dist |-> task.dist, idx |-> task.idx,
     labels |-> task.labels, dens |-> task.dens, scores |-> task.scores,
     model |-> task.model]

\* the tasks of the user of task t that committed before, in order
EarlierOf(t) == SelectSeq(ps_log, LAMBDA o : ps_tasks[o].user_id = ps_tasks[t].user_id)

\* C14: a run that commits the same inputs as the run the same user
\* committed last leaves the stored edges and, apart from updated_at, the
\* stored node scores as they were; each table holds one row per key; and
\* the values stored under the keys of a user's latest committed run are
\* the values of that run.
C14_UpsertIdempotentLastWriteWins ==
    /\ [][\A t \in DOMAIN ps_tasks :
            (/\ Commits(t)
             /\ EarlierOf(t) # <<>>
             /\ ArgsOf(ps_tasks[EarlierOf(t)[Len(EarlierOf(t))]]) = ArgsOf(ps_tasks[t]))
               => /\ gr_edges' = gr_edges
                  /\ Untimed(gr_rows') = Untimed(gr_rows)]_vars
    /\ [](/\ \A r1 \in gr_edges, r2 \in gr_edges :
               (r1.user_id = r2.user_id /\ r1.src = r2.src /\ r1.dst = r2.dst) => r1 = r2
          /\ \A r1 \in gr_rows, r2 \in gr_rows :
               (r1.user_id = r2.user_id /\ r1.pub_id = r2.pub_id /\ r1.model = r2.model)
                   => r1 = r2
          /\ \A t \in DOMAIN ps_tasks :
               (EarlierOf(t) # <<>> /\ EarlierOf(t)[Len(EarlierOf(t))] = t)
                   => /\ PersistedEdges(ps_tasks[t]) \subseteq gr_edges
                      /\ PersistedRows(ps_tasks[t], ps_tasks[t].now) \subseteq gr_rows)

\* one user has committed the same inputs twice
C14_Witness ==
    /\ Len(ps_log) = 2
    /\ ps_tasks[ps_log[1]].user_id = ps_tasks[ps_log[2]].user_id
    /\ ArgsOf(ps_tasks[ps_log[1]]) = ArgsOf(ps_tasks[ps_log[2]])
    /\ ps_tasks[ps_log[1]].now # ps_tasks[ps_log[2]].now
    /\ gr_edges = PersistedEdges(ps_tasks[ps_log[2]])

(***************************************************************************)
(* Library availability.  app/whitespace_api.py imports igraph, leidenalg  *)
(* and umap at module level and then sets its two availability flags.      *)
(***************************************************************************)
Libraries == {"igraph", "leidenalg", "umap"}

ImportInit == imp_env = None /\ imp_module = None /\ imp_served = None

\* the service is deployed with some of the libraries installed
Deploy ==
    /\ imp_env = None
    /\ \E installed \in SUBSET Libraries : imp_env' = [installed |-> installed]
    /\ UNCHANGED <<imp_module, imp_served>>
    /\ UNCHANGED NotImp

\* import app.whitespace_api: the import statements, then
\* _HAVE_LEIDEN = True and _HAVE_UMAP = True
ImportWhitespaceApi ==
    /\ imp_env # None /\ imp_module = None
    /\ imp_module' =
         IF Libraries \subseteq imp_env.installed
         THEN [loaded |-> TRUE, _HAVE_LEIDEN |-> TRUE, _HAVE_UMAP |-> TRUE]
         ELSE [loaded |-> FALSE, error |-> "ModuleNotFoundError"]
    /\ UNCHANGED <<imp_env, imp_served>>
    /\ UNCHANGED NotImp

\* one POST /graph: which clustering cluster_labels runs and which layout
\* the handler computes; without the module there is no handler to run
ServeGraph ==
    /\ imp_module # None /\ imp_served = None
    /\ \E req \in GraphRequests, layout \in BOOLEAN :
         imp_served' =
            IF imp_module.loaded
            THEN [failed |-> FALSE, req |-> req, layout |-> layout,
                  clustering |-> IF imp_module._HAVE_LEIDEN THEN "leiden"
                                 ELSE "union_find",
                  layout_method |-> IF layout /\ imp_module._HAVE_UMAP THEN "umap"
                                    ELSE "pca"]
            ELSE [failed |-> TRUE, req |-> req, layout |-> layout,
                  clustering |-> "none", layout_method |-> "none"]
    /\ UNCHANGED <<imp_env, imp_module>>
    /\ UNCHANGED NotImp

ImportNext == Deploy \/ ImportWhitespaceApi \/ ServeGraph

\* C15: a request served where the community-detection library is missing
\* is clustered by the union-find fallback, a request served where the
\* manifold-learning library is missing is laid out by the linear
\* projection, and in neither case does the request fail.
C15_DegradesWhenLibraryMissing ==
    imp_served # None =>
        /\ ~imp_served.failed
        /\ ~({"igraph", "leidenalg"} \subseteq imp_env.installed)
              => imp_served.clustering = "union_find"
        /\ "umap" \notin imp_env.installed => imp_served.layout_method = "pca"

\* the edges of the partitioned graph that join nodes i and j
EdgesJoining(i, j) ==
    {e \in 1..Len(gr_run.edges) :
        {gr_run.edges[e].i, gr_run.edges[e].j} = {i, j}}

\* j is among the nearest neighbours build_knn returned for i
NeighborOf(i, j) == \E c \in 1..Len(gr_run.idx[i]) : gr_run.idx[i][c] = j

\* C20: the graph handed to the partitioner has, for every pair of distinct
\* nodes i, j with j among the k nearest neighbours of i, exactly one edge
\* {i, j}, of weight 1 - distance, whether or not i is among the neighbours
\* of j.
C20_OneEdgePerNeighborPair ==
    GraphBuilt =>
        \A i \in 1..Len(gr_run.idx), j \in 1..Len(gr_run.idx) :
            (i # j /\ NeighborOf(i, j)) =>
                /\ Cardinality(EdgesJoining(i, j)) = 1
                /\ \A e \in EdgesJoining(i, j), c \in 1..Len(gr_run.idx[i]) :
                      gr_run.idx[i][c] = j =>
                          gr_run.edges[e].weight = Scale - gr_run.dist[i][c]

\* group g of the response reports kind with ok = True and confidence > 0
\* and lists the node
ReportedOk(node_id, kind) ==
    \E g \in 1..Len(gr_resp.signals) : \E k \in 1..Len(gr_resp.signals[g].signals) :
        LET sig == gr_resp.signals[g].signals[k]
        IN /\ sig.type = kind
           /\ sig.status # "none"
           /\ sig.confidence > 0
           /\ node_id \in SeqToSet(sig.node_ids)

\* C28: a node of the response carries kind K only if some group reported
\* K with ok = True and confidence > 0 and listed the node; a node listed
\* under no such signal carries no kind and the default relevance 0.15.
C28_NodeSignalsOnlyFromOkSignals ==
    (GraphBuilt /\ gr_resp.status_code = 200) =>
        \A i \in 1..Len(gr_resp.nodes) :
            LET node == gr_resp.nodes[i]
            IN /\ \A kind \in node.signals : ReportedOk(node.id, kind)
               /\ (\A kind \in SeqToSet(SIGNAL_ORDER) : ~ReportedOk(node.id, kind))
                     => node.signals = {} /\ node.relevance = 150

\* C22: no edge of the clustering graph, no knn_edge row and no edge of the
\* response graph joins a node to itself, wherever a node's own index
\* stands in its neighbour row.
C22_NoSelfEdges ==
    GraphBuilt =>
        /\ \A e \in 1..Len(gr_run.edges) : gr_run.edges[e].i # gr_run.edges[e].j
        /\ \A row \in gr_edges : row.src # row.dst
        /\ gr_resp.status_code = 200 =>
             \A e \in 1..Len(gr_resp.edges) :
                 gr_resp.edges[e].source # gr_resp.edges[e].target

(***************************************************************************)
(* cluster_labels without community detection: thresholded components      *)
(***************************************************************************)
MaxClusterNodes == 4

\* cluster_labels.find: the root of a, halving the path on the way
RECURSIVE find(_, _)
find(parent, a) ==
    IF parent[a] = a THEN [parent |-> parent, root |-> a]
    ELSE Let([parent EXCEPT ![a] = parent[parent[a]]],
             LAMBDA halved : find(halved, halved[a]))

\* cluster_labels.union
union(parent, a, b) ==
    Let(find(parent, a), LAMBDA fa :
    Let(find(fa.parent, b), LAMBDA fb :
        IF fa.root # fb.root THEN [fb.parent EXCEPT ![fb.root] = fa.root]
        ELSE fb.parent))

\* cluster_labels, the loop over rows i and neighbour positions jpos,
\* from the flat position pos = (i - 1) * k + (jpos - 1) on
RECURSIVE UnionLoop(_, _, _, _)
UnionLoop(parent, dist, idx, pos) ==
    IF dist = <<>> \/ pos >= Len(idx) * Len(idx[1]) THEN parent
    ELSE LET k == Len(idx[1])
             i == (pos \div k) + 1
             jpos == (pos % k) + 1
             j == idx[i][jpos]
             sim_thresh == 750
         IN IF i = j THEN UnionLoop(parent, dist, idx, pos + 1)
            ELSE IF Scale - dist[i][jpos] >= sim_thresh
                 THEN UnionLoop(union(parent, i, j), dist, idx, pos + 1)
                 ELSE UnionLoop(parent, dist, idx, pos + 1)

\* cluster_labels, the labels numbered by the root itself
LabelsByRoot(parent) ==
    [i \in 1..Len(parent) |-> find(parent, i).root - 1]

\* cluster_labels: roots, m = {r: k for k, r in enumerate(sorted(roots))},
\* and the label m[find(i)] of every node
ComponentLabels(parent) ==
    LET roots == {find(parent, i).root : i \in 1..Len(parent)}
        m == [r \in roots |-> Cardinality({q \in roots : q < r})]
    IN [i \in 1..Len(parent) |-> m[find(parent, i).root]]

\* cluster_labels with _HAVE_LEIDEN False
cluster_labels_fallback(dist, idx) ==
    ComponentLabels(UnionLoop([i \in 1..Len(dist) |-> i], dist, idx, 0))

\* the index and distance matrices of a call on n nodes: two columns, a
\* node's own index first or second in every row, the other column any
\* other node (the node off[i] places further on), at distance d[i]
ClusterInput(n, off, d, self_first) ==
    LET nb == [i \in 1..n |-> ((i - 1 + off[i]) % n) + 1]
    IN [idx |-> [i \in 1..n |-> IF self_first THEN <<i, nb[i]>> ELSE <<nb[i], i>>],
        dist |-> [i \in 1..n |-> IF self_first THEN <<0, d[i]>> ELSE <<d[i], 0>>]]

ClusterInit == cl_call = None /\ cl_labels = None

\* similarity 0.75 or 0.74 for every pair
CallClusterLabels ==
    /\ cl_call = None
    /\ \E n \in 2..MaxClusterNodes, self_first \in BOOLEAN :
       \E off \in [1..n -> 1..(n - 1)], d \in [1..n -> {250, 260}] :
       \E in \in {ClusterInput(n, off, d, self_first)} :
         /\ cl_call' = in
         /\ cl_labels' = cluster_labels_fallback(in.dist, in.idx)
    /\ UNCHANGED NotCl

ClusterNext == CallClusterLabels

ClusterCalled == cl_call # None

\* the kNN pairs of the call with similarity >= 0.75, in either direction
SimilarPair(i, j) ==
    /\ i # j
    /\ \E a \in {i, j}, c \in 1..Len(cl_call.idx[1]) :
         /\ cl_call.idx[a][c] \in {i, j} \ {a}
         /\ Scale - cl_call.dist[a][c] >= 750

\* the nodes joined to the nodes of S by a path of such pairs
RECURSIVE ReachFrom(_)
ReachFrom(S) ==
    LET more == S \cup {j \in 1..Len(cl_call.idx) : \E i \in S : SimilarPair(i, j)}
    IN IF more = S THEN S ELSE ReachFrom(more)

\* C21: the fallback labels are the connected components of the graph of
\* kNN pairs with similarity >= 0.75: every node has one label, two nodes
\* share a label iff a path of such pairs joins them, and the labels used
\* are exactly 0..m-1 for m components.
C21_FallbackLabelsAreComponents ==
    ClusterCalled =>
        LET n == Len(cl_call.idx)
            components == {ReachFrom({i}) : i \in 1..n}
        IN /\ DOMAIN cl_labels = 1..n
           /\ \A i \in 1..n, j \in 1..n :
                cl_labels[i] = cl_labels[j] <=> j \in ReachFrom({i})
           /\ {cl_labels[i] : i \in 1..n} = 0..(Cardinality(components) - 1)

\* a call where a path of two similar pairs joins two nodes that are not
\* neighbours of each other, and another node stays alone
C21_Witness ==
    /\ ClusterCalled
    /\ \E i \in 1..Len(cl_call.idx), j \in 1..Len(cl_call.idx) :
         /\ i # j /\ ~SimilarPair(i, j) /\ j \in ReachFrom({i})
         /\ cl_labels[i] = cl_labels[j]
    /\ \E i \in 1..Len(cl_call.idx) :
         /\ ReachFrom({i}) = {i}
         /\ \A j \in 1..Len(cl_call.idx) : j # i => cl_labels[j] # cl_labels[i]

(***************************************************************************)
(* get_whitespace_graph, statement by statement.  The data each stage      *)
(* computes is left out; what a stage can raise is decided by the request  *)
(* and by what the database holds for it.                                  *)
(***************************************************************************)
\* a request, and for it: whether the token carries a user id, whether
\* has_active_subscription holds, how many canonical assignees match, how
\* many rows load_embeddings returns, whether a stored date makes
\* build_group_signals raise
StageRequests ==
    {[limit |-> l, neighbors |-> nb, layout_neighbors |-> ln,
      search_mode |-> sm, assignee_query |-> q,
      has_user_id |-> u, subscribed |-> sub, matched |-> m, point_count |-> pc,
      signals_raise |-> sr] :
        l \in {0, MAX_GRAPH_LIMIT}, nb \in 1..3, ln \in 2..3,
        sm \in SearchModes, q \in {NoneStr, <<"A", "c", "m", "e">>},
        u \in BOOLEAN, sub \in BOOLEAN, m \in 0..1, pc \in 0..4, sr \in BOOLEAN}

StagesInit ==
    /\ st_req = None /\ st_pc = "idle" /\ st_done = <<>>
    /\ st_tasks = 0 /\ st_resp = None

\* a stage completes and the handler goes on to the statement next
StageDone(stage, next) ==
    /\ st_done' = Append(st_done, stage)
    /\ st_pc' = next
    /\ UNCHANGED <<st_req, st_tasks, st_resp>>
    /\ UNCHANGED NotSt

\* a stage raises: the exception leaves the handler as the response
StageRaises(status_code) ==
    /\ st_pc' = "raised"
    /\ st_resp' = [status_code |-> status_code]
    /\ UNCHANGED <<st_req, st_done, st_tasks>>
    /\ UNCHANGED NotSt

ReceiveRequest ==
    /\ st_pc = "idle"
    /\ \E req \in StageRequests : st_req' = req
    /\ st_pc' = "_validate_graph_params"
    /\ UNCHANGED <<st_done, st_tasks, st_resp>>
    /\ UNCHANGED NotSt

StValidate ==
    /\ st_pc = "_validate_graph_params"
    /\ IF _validate_graph_params(st_req) # <<>> THEN StageRaises(400)
       ELSE StageDone("_validate_graph_params", "user_id")

StUserId ==
    /\ st_pc = "user_id"
    /\ IF ~st_req.has_user_id THEN StageRaises(401)
       ELSE StageDone("user_id", "_ensure_active_subscription")

StSubscription ==
    /\ st_pc = "_ensure_active_subscription"
    /\ IF ~st_req.subscribed THEN StageRaises(403)
       ELSE StageDone("_ensure_active_subscription", "pick_model")

StPickModel ==
    /\ st_pc = "pick_model"
    /\ StageDone("pick_model", IF st_req.search_mode = "assignee"
                               THEN "_match_canonical_assignees" ELSE "load_embeddings")

StMatchAssignees ==
    /\ st_pc = "_match_canonical_assignees"
    /\ IF st_req.matched = 0 THEN StageRaises(404)
       ELSE StageDone("_match_canonical_assignees", "load_embeddings")

StLoadEmbeddings ==
    /\ st_pc = "load_embeddings"
    /\ IF st_req.point_count = 0 THEN StageRaises(400)
       ELSE StageDone("load_embeddings", "point_count")

\* the point_count guards scheduling the persistence before they raise
PointCountSchedules ==
    /\ st_pc = "point_count"
    /\ IF \/ st_req.point_count < 2
          \/ st_req.neighbors >= st_req.point_count
          \/ st_req.layout_neighbors >= st_req.point_count
       THEN /\ st_pc' = "raised"
            /\ st_resp' = [status_code |-> 400]
            /\ st_tasks' = st_tasks + 1
            /\ UNCHANGED <<st_req, st_done>>
            /\ UNCHANGED NotSt
       ELSE StageDone("point_count", "build_knn")

\* the three guards on point_count
StPointCount ==
    /\ st_pc = "point_count"
    /\ IF \/ st_req.point_count < 2
          \/ st_req.neighbors >= st_req.point_count
          \/ st_req.layout_neighbors >= st_req.point_count
       THEN StageRaises(400)
       ELSE StageDone("point_count", "build_knn")

StBuildKnn == st_pc = "build_knn" /\ StageDone("build_knn", "cluster_labels")

StClusterLabels == st_pc = "cluster_labels" /\ StageDone("cluster_labels", "local_density")

StLocalDensity == st_pc = "local_density" /\ StageDone("local_density", "neighbor_momentum")

StNeighborMomentum ==
    st_pc = "neighbor_momentum" /\ StageDone("neighbor_momentum", "compute_whitespace_metrics")

StComputeMetrics ==
    st_pc = "compute_whitespace_metrics" /\ StageDone("compute_whitespace_metrics", "layout")

StLayout == st_pc = "layout" /\ StageDone("layout", "_build_node_data")

StBuildNodeData == st_pc = "_build_node_data" /\ StageDone("_build_node_data", "build_group_signals")

StBuildGroupSignals ==
    /\ st_pc = "build_group_signals"
    /\ IF st_req.signals_raise THEN StageRaises(500)
       ELSE StageDone("build_group_signals", "nodes_edges")

StNodesEdges == st_pc = "nodes_edges" /\ StageDone("nodes_edges", "add_task")

\* background_tasks.add_task(_persist_background, ...)
StAddTask ==
    /\ st_pc = "add_task"
    /\ st_tasks' = st_tasks + 1
    /\ st_done' = Append(st_done, "add_task")
    /\ st_pc' = "return"
    /\ UNCHANGED <<st_req, st_resp>>
    /\ UNCHANGED NotSt

StReturn ==
    /\ st_pc = "return"
    /\ st_resp' = [status_code |-> 200]
    /\ st_done' = Append(st_done, "return")
    /\ st_pc' = "returned"
    /\ UNCHANGED <<st_req, st_tasks>>
    /\ UNCHANGED NotSt

StagesNext ==
    \/ ReceiveRequest \/ StValidate \/ StUserId \/ StSubscription \/ StPickModel
    \/ StMatchAssignees \/ StLoadEmbeddings \/ StPointCount \/ StBuildKnn
    \/ StClusterLabels \/ StLocalDensity \/ StNeighborMomentum \/ StComputeMetrics
    \/ StLayout \/ StBuildNodeData \/ StBuildGroupSignals \/ StNodesEdges
    \/ StAddTask \/ StReturn

\* the position of a stage among the completed ones, 0 when not completed
StagePos(stage) ==
    IF \E i \in 1..Len(st_done) : st_done[i] = stage
    THEN CHOOSE i \in 1..Len(st_done) : st_done[i] = stage ELSE 0

StageBefore(a, b) == StagePos(b) > 0 => (0 < StagePos(a) /\ StagePos(a) < StagePos(b))

\* C24: validation completes first; in assignee mode the canonical-assignee
\* match completes before the embeddings are loaded; the persistence task is
\* added at most once, and only after neighbour graph, clustering, momentum
\* and scoring have completed; a request that is rejected never adds it.
C24_StagesInOrder ==
    /\ st_done # <<>> => st_done[1] = "_validate_graph_params"
    /\ (st_req # None /\ st_req.search_mode = "assignee")
          => StageBefore("_match_canonical_assignees", "load_embeddings")
    /\ st_tasks <= 1
    /\ st_tasks = 1 <=> StagePos("add_task") > 0
    /\ \A stage \in {"build_knn", "cluster_labels", "neighbor_momentum",
                     "compute_whitespace_metrics"} : StageBefore(stage, "add_task")
    /\ StageBefore("build_knn", "cluster_labels")
    /\ StageBefore("cluster_labels", "neighbor_momentum")
    /\ StageBefore("neighbor_momentum", "compute_whitespace_metrics")
    /\ st_pc = "raised" => st_tasks = 0

\* an assignee-mode request answered 200 with its task added, the match
\* before the load
C24_Witness ==
    /\ st_pc = "returned" /\ st_resp.status_code = 200
    /\ st_req.search_mode = "assignee"
    /\ st_tasks = 1
    /\ 0 < StagePos("_match_canonical_assignees")
    /\ StagePos("_match_canonical_assignees") < StagePos("load_embeddings")

(***************************************************************************)
(* Bridge inputs: one call of _compute_bridge_inputs on a population whose *)
(* nodes fall in up to three clusters.                                     *)
(***************************************************************************)
MaxBridgeNodes == 4

\* the nodes 1..n with their cluster ids
BridgeNodes(labels) == [i \in 1..Len(labels) |-> [index |-> i, cluster_id |-> labels[i]]]

BridgeInit == br_call = None /\ br_res = None

\* the group is the whole population or all of it but the last node; each
\* neighbour row holds the node and the next node, or the node and the
\* previous one
CallComputeBridgeInputs ==
    /\ br_call = None
    /\ \E n \in 3..MaxBridgeNodes, whole \in BOOLEAN, forward \in BOOLEAN :
       \E labels \in [1..n -> 0..2] :
       \E node_data \in {BridgeNodes(labels)},
          idx_matrix \in {[i \in 1..n |-> <<i, IF forward THEN (i % n) + 1
                                               ELSE ((i + n - 2) % n) + 1>>]},
          dist_matrix \in {[i \in 1..n |-> <<0, 100 * i>>]} :
       \E group_nodes \in {IF whole THEN node_data ELSE SubSeq(node_data, 1, n - 1)} :
         /\ br_call' = [group_nodes |-> group_nodes, node_data |-> node_data,
                        idx_matrix |-> idx_matrix, dist_matrix |-> dist_matrix]
         /\ br_res' = _compute_bridge_inputs(group_nodes, node_data, idx_matrix,
                                             dist_matrix, <<1000, 300, 500>>)
    /\ UNCHANGED NotBr

BridgeNext == CallComputeBridgeInputs

\* the clusters the group touches, and its two dominant ones
BrClusters == {br_call.group_nodes[i].cluster_id : i \in 1..Len(br_call.group_nodes)}
BrDominant == SeqToSet(most_common(br_call.group_nodes))
BrTwoClusters == br_call # None /\ Cardinality(BrClusters) >= 2

\* the nodes of the group that lie in a dominant cluster and have a
\* neighbour in the other dominant cluster
BrCrossing ==
    {i \in 1..Len(br_call.group_nodes) :
        /\ br_call.group_nodes[i].cluster_id \in BrDominant
        /\ \E c \in 1..Len(br_call.idx_matrix[i]) :
             /\ br_call.idx_matrix[i][c] # i
             /\ br_call.node_data[br_call.idx_matrix[i][c]].cluster_id
                  \in BrDominant \ {br_call.group_nodes[i].cluster_id}}

\* the nodes of the group that lie in a dominant cluster
BrInDominant ==
    {i \in 1..Len(br_call.group_nodes) : br_call.group_nodes[i].cluster_id \in BrDominant}

\* C25 as stated: openness is the number of the group's nodes with a
\* neighbour in the other dominant cluster divided by the number of the
\* group's nodes.
C25_OpennessOverGroup ==
    BrTwoClusters =>
        br_res.openness = (Cardinality(BrCrossing) * Scale) \div Len(br_call.group_nodes)

\* C25: for a group touching at least two clusters, openness is the number
\* of the group's nodes with a neighbour in the other dominant cluster
\* divided by the number of the group's nodes that lie in the two dominant
\* clusters, and lies in [0,1].
C25_OpennessOverDominant ==
    BrTwoClusters =>
        /\ br_res.openness = (Cardinality(BrCrossing) * Scale) \div Cardinality(BrInDominant)
        /\ 0 <= br_res.openness /\ br_res.openness <= Scale

\* a group touching three clusters, with a crossing node: openness is above
\* the fraction of the whole group
C25_Witness ==
    /\ BrTwoClusters
    /\ Cardinality(BrClusters) = 3
    /\ BrCrossing # {}
    /\ br_res.openness > (Cardinality(BrCrossing) * Scale) \div Len(br_call.group_nodes)

(***************************************************************************)
(* Specifications: every component starts idle; each specification runs    *)
(* the operations of one component.                                        *)
(***************************************************************************)
Init == SignalsInit /\ CanonInit /\ ValidateInit /\ WindowInit /\ MomentumInit /\ GroupsInit /\ GraphInit /\ PersistInit /\ ImportInit /\ ClusterInit /\ StagesInit /\ BridgeInit

SpecSignals == Init /\ [][SignalsNext]_vars
SpecCanon == Init /\ [][CanonNext]_vars
SpecValidate == Init /\ [][ValidateNext]_vars
SpecWindow == Init /\ [][WindowNext]_vars
SpecMomentum == Init /\ [][MomentumNext]_vars
SpecGroups == Init /\ [][GroupsNext]_vars
SpecGraph == Init /\ [][GraphNext]_vars
SpecPersist == Init /\ [][PersistNext]_vars
SpecImport == Init /\ [][ImportNext]_vars
SpecCluster == Init /\ [][ClusterNext]_vars
SpecStages == Init /\ [][StagesNext]_vars
SpecBridge == Init /\ [][BridgeNext]_vars

====
